---- MODULE Spec2Model ----
(***************************************************************************)
(* Model of the agent-based ecosystem simulation: the Organism hierarchy   *)
(* (Organism.ts, Producer.ts, Consumer.ts, Decomposer.ts), the Grid        *)
(* (Grid.ts), the Environment (Environment.ts) and the useSimulation hook  *)
(* (initialize, runCycle, checkForExtinction, addDisturbance,              *)
(* saveSimulation, loadSimulation and the simulation interval).            *)
(*                                                                         *)
(* Numbers.  Energies are IEEE doubles in the source.  The model keeps     *)
(* them as integers counted in 1/EnergyUnit of one energy point, with      *)
(* EnergyUnit a power of two large enough that every halving done by       *)
(* reproduce() is exact, as it is for doubles.  Quantities the source      *)
(* computes from the continuous climate (photosynthesis gain, metabolism   *)
(* cost, decomposition gain) or from Math.random() are drawn from small    *)
(* sets with \E.  Ages and maxAge are small numbers: an organism with      *)
(* maxAge m stands for one that has m ticks left to live.                  *)
(*                                                                         *)
(* Objects.  JavaScript objects that the source shares by reference are    *)
(* kept in heaps (grids, dists, statsHeap) and named by their index, so    *)
(* that a snapshot holding a reference sees later in-place mutation.       *)
(***************************************************************************)
EXTENDS Integers, Sequences, FiniteSets, TLC

\* ------------------------------------------------------------------ bounds
\* total number of runCycle() calls explored
MaxCycles == 2
\* supply of organism ids (uuidv4 values) over a whole behaviour
MaxIds == 3
\* largest number of cycles the interval callback is made to request in one tick
MaxCyclesPerTick == 2
\* number of Grid objects constructed over a behaviour (initialize, loadSimulation)
MaxGrids == 2
\* number of Disturbance objects created over a behaviour
MaxDisturbances == 1

\* ------------------------------------------------------- program constants
\* Environment.yearLength
YearLength == 120
\* cap on cycles run by one interval callback: Math.min(5, ...)
CatchUpCap == 5
\* findAvailablePosition: baseScore = 10 - Math.min(10, cell.organisms.length)
CrowdLimit == 10
\* statistics series are cut to the last 500 samples
StatsLimit == 500
\* the stability index looks at the last 10 samples (slice(-10))
StabilityWindow == 10

\* one energy point, in model units: a power of two, so that the halvings of
\* reproduce() (at most MaxIds of them) and the quarter-point costs stay exact
EnergyUnit == 2 ^ (MaxIds + 2)
\* Organism constructor defaults: attributes.energy || 100, maxAge || 100,
\* reproductionEnergy || 150, movementCost || 1
DefaultEnergy == 100 * EnergyUnit
DefaultMaxAge == 100
DefaultReproductionEnergy == 150 * EnergyUnit
DefaultMovementCost == EnergyUnit

Null == "null"
Undefined == "undefined"

Min(a, b) == IF a < b THEN a ELSE b
Max(a, b) == IF a > b THEN a ELSE b

\* JavaScript's  v || d  on numbers: 0 is falsy
OrDefault(v, d) == IF v = 0 THEN d ELSE v
\* JavaScript's  v || d  on an optional string field
OrDefaultStr(v, d) == IF v = Undefined THEN d ELSE v

RECURSIVE SeqSum(_)
SeqSum(s) == IF s = <<>> THEN 0 ELSE Head(s) + SeqSum(Tail(s))

\* Array.prototype.indexOf: 1-based index of the first occurrence, 0 if none
RECURSIVE IndexOfFrom(_, _, _)
IndexOfFrom(s, v, i) ==
  IF i > Len(s) THEN 0
  ELSE IF s[i] = v THEN i
  ELSE IndexOfFrom(s, v, i + 1)
IndexOf(s, v) == IndexOfFrom(s, v, 1)

\* Array.prototype.splice(index, 1)
RemoveAt(s, i) == SubSeq(s, 1, i - 1) \o SubSeq(s, i + 1, Len(s))

SeqToSet(s) == {s[i] : i \in 1..Len(s)}

\* ------------------------------------------------------------- Organism.ts
\* The attribute record kept in the organism table.  consumerType is
\* Undefined for records that carry no such field (Producer, Decomposer, and
\* every record made by Organism.getAttributes()).
Attrs(id, type, consumerType, position, energy, age, maxAge, reproductionEnergy, movementCost, isDead, species) ==
  [id |-> id, type |-> type, consumerType |-> consumerType, position |-> position,
   energy |-> energy, age |-> age, maxAge |-> maxAge,
   reproductionEnergy |-> reproductionEnergy, movementCost |-> movementCost,
   isDead |-> isDead, species |-> species]

\* Organism constructor: every numeric field goes through  attributes.f || default
OrganismCtor(a) ==
  [a EXCEPT !.energy = OrDefault(a.energy, DefaultEnergy),
            !.maxAge = OrDefault(a.maxAge, DefaultMaxAge),
            !.reproductionEnergy = OrDefault(a.reproductionEnergy, DefaultReproductionEnergy),
            !.movementCost = OrDefault(a.movementCost, DefaultMovementCost)]

\* Producer constructor: type forced to Producer, movementCost: 0 handed to super
ProducerCtor(a) ==
  [OrganismCtor([a EXCEPT !.movementCost = 0]) EXCEPT !.type = "Producer",
                                                        !.consumerType = Undefined]

\* Consumer constructor: type forced to Consumer,
\* consumerType = attributes.consumerType || ConsumerType.Herbivore
ConsumerCtor(a) ==
  [OrganismCtor(a) EXCEPT !.type = "Consumer",
                          !.consumerType = OrDefaultStr(a.consumerType, "Herbivore")]

\* Decomposer constructor: type forced to Decomposer
DecomposerCtor(a) ==
  [OrganismCtor(a) EXCEPT !.type = "Decomposer", !.consumerType = Undefined]

\* Organism.die
Die(o) == [o EXCEPT !.isDead = TRUE]

\* Organism.update: age += 1, then death by old age or by energy depletion
OrganismUpdate(o) ==
  LET aged == [o EXCEPT !.age = o.age + 1] IN
  IF aged.age >= aged.maxAge THEN Die(aged)
  ELSE IF aged.energy <= 0 THEN Die(aged)
  ELSE aged

\* Organism.move: relocates and deducts movementCost
Move(o, newPosition) ==
  [o EXCEPT !.position = newPosition, !.energy = o.energy - o.movementCost]

\* Organism.canReproduce, given the outcome of  Math.random() < reproductionRate
CanReproduce(o, lucky) == o.energy >= o.reproductionEnergy /\ lucky

\* this.energy * 0.5
Half(e) == e \div 2

\* the parent after reproduce(): this.energy *= 0.5
ReproduceParent(o) == [o EXCEPT !.energy = Half(o.energy)]

\* an offspring that has been through an update when it is handed over
ReproduceOffspringAged(o, id, j) ==
  OrganismCtor(Attrs(id, o.type, Undefined, o.position, Half(o.energy), 1,
                     j.maxAge, j.reproductionEnergy, j.movementCost, FALSE,
                     o.species))

\* the object reproduce() returns: new Organism(offspringAttributes), a base
\* Organism whose getAttributes() has no kind-specific field.  id is the fresh
\* uuid; j gives the jittered maxAge, reproductionEnergy and movementCost.
ReproduceOffspring(o, id, j) ==
  OrganismCtor(Attrs(id, o.type, Undefined, o.position, Half(o.energy), 0,
                     j.maxAge, j.reproductionEnergy, j.movementCost, FALSE,
                     o.species))

\* ------------------------------------------------------------- Consumer.ts
\* Consumer.canEat
CanEat(c, target) ==
  IF c.consumerType = "Herbivore" THEN target.type = "Producer"
  ELSE IF c.consumerType = "Carnivore" THEN target.type = "Consumer"
  ELSE target.type = "Producer" \/ target.type = "Consumer"

\* the whole of the prey's energy taken as the gain
EnergyGainAll(preyEnergy) == preyEnergy

\* prey.energy * 0.8, rounded to the energy unit
EnergyGain(preyEnergy) == ((preyEnergy * 4) \div (5 * EnergyUnit)) * EnergyUnit

\* this.movementCost * 1.5
FailedHuntCost(c) == (c.movementCost * 3) \div 2

\* Consumer.eat, given the outcome of the hunting-success draw: the pair
\* <<consumer after, prey after>>
Eat(c, prey, huntingSuccess) ==
  IF c.isDead \/ prey.isDead THEN <<c, prey>>
  ELSE IF huntingSuccess
    THEN <<[c EXCEPT !.energy = c.energy + EnergyGain(prey.energy)], Die(prey)>>
    ELSE <<[c EXCEPT !.energy = c.energy - FailedHuntCost(c)], prey>>

\* Consumer.eat: the number returned
EatResult(c, prey, huntingSuccess) ==
  IF c.isDead \/ prey.isDead THEN 0
  ELSE IF huntingSuccess THEN EnergyGain(prey.energy)
  ELSE 0

\* ----------------------------------------------------------------- Grid.ts
\* Positions are pairs <<x, y>>.  A Grid object is [width, height, cells,
\* updates]: cells maps each position to a Cell [organisms, elevated], where
\* organisms is the cell's id array and elevated stands for  cell.height > 1 ;
\* updates counts the updateEnvironment() calls applied to the object and
\* stands for the scalar cell fields (waterLevel, nutrientLevel, temperature,
\* pollutionLevel), which only updateEnvironment, applyDisturbance and
\* addNutrients change.
Positions(w, h) == (0..(w - 1)) \X (0..(h - 1))

InBounds(g, pos) == pos[1] >= 0 /\ pos[1] < g.width /\ pos[2] >= 0 /\ pos[2] < g.height

\* Grid constructor; elev is the terrain drawn by initializeGrid
GridCtor(w, h, elev) ==
  [width |-> w, height |-> h, updates |-> 0,
   cells |-> [p \in Positions(w, h) |-> [organisms |-> <<>>, elevated |-> elev[p]]]]

\* Grid.addOrganism: the grid after the call
AddOrganism(g, o) ==
  IF InBounds(g, o.position)
    THEN [g EXCEPT !.cells[o.position].organisms = Append(@, o.id)]
    ELSE g

AddOrganismResult(g, o) == InBounds(g, o.position)

\* Grid.removeOrganism: success flag
RemoveOrganismResult(g, organismId, position) ==
  InBounds(g, position) /\ IndexOf(g.cells[position].organisms, organismId) # 0

\* Grid.removeOrganism: the grid after the call
RemoveOrganism(g, organismId, position) ==
  IF RemoveOrganismResult(g, organismId, position)
    THEN [g EXCEPT !.cells[position].organisms = RemoveAt(@, IndexOf(@, organismId))]
    ELSE g

\* Grid.moveOrganism: success flag
MoveOrganismResult(g, organismId, oldPosition, newPosition) ==
  /\ InBounds(g, newPosition)
  /\ RemoveOrganismResult(g, organismId, oldPosition)

\* moveOrganism with the removal made before the bounds test of the destination
MoveOrganismRemoveFirst(g, organismId, oldPosition, newPosition) ==
  IF ~RemoveOrganismResult(g, organismId, oldPosition) THEN g
  ELSE LET removed == RemoveOrganism(g, organismId, oldPosition) IN
       IF ~InBounds(g, newPosition) THEN removed
       ELSE [removed EXCEPT !.cells[newPosition].organisms = Append(@, organismId)]

\* moveOrganism that pushes the id to the destination and leaves the source
\* cell as it was
MoveOrganismCopy(g, organismId, oldPosition, newPosition) ==
  IF ~InBounds(g, newPosition) THEN g
  ELSE IF ~RemoveOrganismResult(g, organismId, oldPosition) THEN g
  ELSE [g EXCEPT !.cells[newPosition].organisms = Append(@, organismId)]

\* Grid.moveOrganism: the grid after the call
MoveOrganism(g, organismId, oldPosition, newPosition) ==
  IF ~InBounds(g, newPosition) THEN g
  ELSE IF ~RemoveOrganismResult(g, organismId, oldPosition) THEN g
  ELSE LET removed == RemoveOrganism(g, organismId, oldPosition) IN
       [removed EXCEPT !.cells[newPosition].organisms = Append(@, organismId)]

\* the square neighbourhood of pos clipped to the grid, as both loops of
\* getNearbyOrganisms and findAvailablePosition enumerate it
Neighbourhood(g, pos, radius) ==
  {p \in Positions(g.width, g.height) :
     /\ p[1] >= Max(0, pos[1] - radius) /\ p[1] <= Min(g.width - 1, pos[1] + radius)
     /\ p[2] >= Max(0, pos[2] - radius) /\ p[2] <= Min(g.height - 1, pos[2] + radius)}

\* Grid.getNearbyOrganisms: the ids found (callers pick one at random after
\* filtering, so only membership matters)
GetNearbyOrganisms(g, position, radius) ==
  UNION {SeqToSet(g.cells[p].organisms) : p \in Neighbourhood(g, position, radius)}

\* the score without the elevation bonus
ScoreFlat(cell) == CrowdLimit - Min(CrowdLimit, Len(cell.organisms))

\* findAvailablePosition: a cell's score
Score(cell) ==
  (CrowdLimit - Min(CrowdLimit, Len(cell.organisms))) + (IF cell.elevated THEN 2 ELSE 0)

\* Grid.findAvailablePosition: the positions it can return; empty means null
FindAvailablePosition(g, origin, maxDistance) ==
  {p \in Neighbourhood(g, origin, maxDistance) : Score(g.cells[p]) > 0}

\* Grid.updateEnvironment followed by the applyDisturbance loop of runCycle:
\* scalar cell fields only, no organism array is touched
UpdateEnvironment(g) == [g EXCEPT !.updates = g.updates + 1]

\* ---------------------------------------------------------- Environment.ts
Seasons == <<"Spring", "Summer", "Fall", "Winter">>

\* Environment.seasonLength = yearLength / 4
SeasonLength == YearLength \div 4

\* seasons[Math.floor((day % yearLength) / seasonLength)]
SeasonOf(day) == Seasons[((day % YearLength) \div SeasonLength) + 1]

\* Environment constructor: this.day = 0, disturbances = [], and the config
\* fields taken from the argument with  ||  defaults
EnvironmentCtor(cfg, simulationConfig) ==
  [day |-> 0,
   disturbances |-> <<>>,
   config |-> [day |-> OrDefault(cfg.day, 0),
               season |-> OrDefaultStr(cfg.season, "Spring"),
               width |-> OrDefault(cfg.width, OrDefault(simulationConfig.gridWidth, 50)),
               height |-> OrDefault(cfg.height, OrDefault(simulationConfig.gridHeight, 50))]]

\* A Disturbance object as addDisturbance creates it
NewDisturbance(type, duration) ==
  [type |-> type, duration |-> duration, current |-> 0, active |-> TRUE]

\* updateDisturbances deactivating only once current exceeds the duration
AgeDisturbanceLate(d) ==
  IF ~d.active THEN d
  ELSE [d EXCEPT !.current = d.current + 1,
                 !.active = ~(d.current + 1 > d.duration)]

\* updateDisturbances on one object: current += 1, deactivate at the duration
AgeDisturbance(d) ==
  IF ~d.active THEN d
  ELSE [d EXCEPT !.current = d.current + 1,
                 !.active = ~(d.current + 1 >= d.duration)]

\* Environment.updateDisturbances: the heap of Disturbance objects after it
UpdateDisturbancesHeap(env, heap) ==
  [i \in DOMAIN heap |-> IF i \in SeqToSet(env.disturbances) THEN AgeDisturbance(heap[i]) ELSE heap[i]]

\* Environment.updateDisturbances: the filtered list
UpdateDisturbancesList(env, heap) ==
  LET aged == UpdateDisturbancesHeap(env, heap)
      Keep(i) == heap[i].active /\ aged[i].active
  IN  SelectSeq(env.disturbances, Keep)

\* Environment.update without the spontaneous disturbance: <<env, heap>>
EnvironmentUpdate(env, heap) ==
  <<[env EXCEPT !.day = env.day + 1,
                !.config.day = env.day + 1,
                !.config.season = SeasonOf(env.day + 1),
                !.disturbances = UpdateDisturbancesList(env, heap)],
    UpdateDisturbancesHeap(env, heap)>>

\* Environment.addDisturbance: <<env, heap>>; the new object is the last of heap
EnvironmentAddDisturbance(env, heap, type, duration) ==
  <<[env EXCEPT !.disturbances = Append(env.disturbances, Len(heap) + 1)],
    Append(heap, NewDisturbance(type, duration))>>

\* Environment.getActiveDisturbances
GetActiveDisturbances(env, heap) ==
  LET Active(i) == heap[i].active IN SelectSeq(env.disturbances, Active)

\* Environment.getConfig: a copy of the config record
GetConfig(env) == env.config

\* ------------------------------------------- Producer.ts and Decomposer.ts
\* Producer.update.  gain is photosynthesisRate * environmentFactor *
\* resourceFactor * 12 and fertile is  resourceFactor > 0.4 , both decided by
\* climate and cell fields; growthCost is growthRate * 8.
GrowthEnergy == 110 * EnergyUnit
ProducerUpdate(p, gain, fertile, growthCost) ==
  LET base == OrganismUpdate(p) IN
  IF base.isDead THEN base
  ELSE LET fed == [base EXCEPT !.energy = base.energy + gain] IN
       IF fed.energy > GrowthEnergy /\ fertile
         THEN [fed EXCEPT !.energy = fed.energy - growthCost]
         ELSE fed

\* Consumer.update.  cost is size * metabolismRate * temperatureFactor *
\* seasonalFactor, always positive.
ConsumerUpdate(c, cost) ==
  LET base == OrganismUpdate(c) IN
  IF base.isDead THEN base ELSE [base EXCEPT !.energy = base.energy - cost]

\* Decomposer.update.  gainPerDead is decompositionEfficiency * 12 for one
\* dead organism (it is 0 when deadOrganismCount is 0, since the efficiency
\* has the factor Math.min(1, deadOrganismCount / 4)); growth needs
\* energy > 130 and deadMatterFactor > 0.25, and costs 4.
DecomposerGrowthEnergy == 130 * EnergyUnit
DecomposerGrowthCost == 4 * EnergyUnit
DecomposerUpdate(d, deadOrganismCount, gainPerDead) ==
  LET base == OrganismUpdate(d) IN
  IF base.isDead THEN base
  ELSE LET fed == [base EXCEPT !.energy = base.energy + gainPerDead * deadOrganismCount] IN
       IF fed.energy > DecomposerGrowthEnergy /\ deadOrganismCount > 1
         THEN [fed EXCEPT !.energy = fed.energy - DecomposerGrowthCost]
         ELSE fed

\* Decomposer.decompose: no gain for a dead decomposer; gain is
\* deadOrganism.size * 6 * decompositionRate
Decompose(d, gain) == IF d.isDead THEN d ELSE [d EXCEPT !.energy = d.energy + gain]

\* ---------------------------------------------------------- the input sets
\* simulation configurations handed to initialize(): the worlds of one
\* organism, and the worlds of two where one kind feeds on the other
GridWidths == {1, 2}
GridHeights == {1}
Counts == {0, 1}
Configs ==
  {c \in [gridWidth : GridWidths, gridHeight : GridHeights,
          initialProducers : Counts, initialHerbivores : Counts,
          initialCarnivores : Counts, initialDecomposers : Counts] :
     LET n == c.initialProducers + c.initialHerbivores + c.initialCarnivores + c.initialDecomposers IN
     \/ n = 1
     \/ /\ n = 2
        /\ \/ c.initialProducers = 1 /\ c.initialHerbivores = 1
           \/ c.initialHerbivores = 1 /\ c.initialCarnivores = 1
           \/ c.initialProducers = 1 /\ c.initialDecomposers = 1}

\* the organisms initialize() creates:  for (let i = 0; i < n; i++)  runs
\* Math.max(0, n) times for each of the four counts
Population(c) ==
  Max(0, c.initialProducers) + Max(0, c.initialHerbivores)
    + Max(0, c.initialCarnivores) + Max(0, c.initialDecomposers)

\* Math.floor(Math.random() * n): 0..n-1 for a positive n, 0 for n = 0, and
\* n..-1 or -0 for a negative n
Drawn(n) == IF n > 0 THEN 0..(n - 1) ELSE n..0

\* the positions initialize() draws for a grid of w by h
DrawnPositions(w, h) == Drawn(w) \X Drawn(h)

\* the climate- and chance-dependent quantities of the organism pass
\* Producer.update: the energy gained and whether  resourceFactor > 0.4
ProducerClimates == {[gain |-> 0, fertile |-> FALSE], [gain |-> EnergyUnit, fertile |-> TRUE]}
GrowthCosts == {EnergyUnit \div 2}
MetabolismCosts == {EnergyUnit \div 4}
DecompositionGains == {EnergyUnit}
DisturbanceTypes == {"Fire", "Flood"}
DisturbanceDurations == {1, 2}

\* the lifespans (maxAge) of the organisms of initialize(): one that ends in
\* the first cycle and one that outlasts every behaviour explored
Lifespans == {1, MaxCycles + 1}

\* the traits initialize() draws, at the low end of each range of the source
InitialEnergy(kind) ==
  CASE kind = "Producer" -> 120 * EnergyUnit
    [] kind = "Herbivore" -> 180 * EnergyUnit
    [] kind = "Carnivore" -> 220 * EnergyUnit
    [] OTHER -> 100 * EnergyUnit

InitialReproductionEnergy(kind) ==
  CASE kind = "Producer" -> 110 * EnergyUnit
    [] kind = "Herbivore" -> 160 * EnergyUnit
    [] kind = "Carnivore" -> 220 * EnergyUnit
    [] OTHER -> 90 * EnergyUnit

\* the jittered traits reproduce() draws for an offspring: multipliers in
\* [0.9, 1.1), of which the model draws 1
Jitters(o) ==
  [maxAge : {o.maxAge},
   reproductionEnergy : {o.reproductionEnergy},
   movementCost : {o.movementCost}]

\* the terrain initializeGrid() draws (elevation only matters to
\* findAvailablePosition, for a cell holding CrowdLimit organisms or more)
Terrains(w, h) == {[p \in Positions(w, h) |-> FALSE]}

\* ------------------------------------------------------------------- state
VARIABLES
  config,          \* useState: the SimulationConfig
  state,           \* useState: the SimulationState snapshot
  autoRestartOnExtinction,
  extinctionCount,
  restartTimers,   \* sequence of the newConfig of each pending setTimeout of checkForExtinction
  gridRef,         \* gridRef.current: index into grids
  grids,           \* heap of Grid objects
  environment,     \* environmentRef.current: the Environment object
  dists,           \* heap of Disturbance objects
  statsHeap,       \* heap of statistics array groups; statsHeap[1] is EMPTY_STATS's arrays
  queue,           \* state updaters queued by runCycle and not yet run by React
  upd,             \* locals of the running runCycle updater
  pc,              \* what is running: idle, tick0, tick, render, pass, moves, spawns, removals, finish
  cyclesLeft,      \* runCycle() calls the running handler still makes
  nextId,          \* the next fresh organism id not yet in the table
  cycles,          \* runCycle() calls made so far
  saved,           \* the SavedSimulation kept by the caller: a list of at most one
  lineage,         \* history: for each offspring id, kind/species/guild of its parent at birth
  call             \* history: the last call made on a single Organism or Grid object

vars == <<config, state, autoRestartOnExtinction, extinctionCount, restartTimers, gridRef, grids, environment, dists, statsHeap, queue, upd, pc, cyclesLeft, nextId, cycles, saved, lineage, call>>

\* --------------------------------------------------- the organism table
\* Record<string, OrganismAttributes> with string keys: a sequence of records
\* in insertion order, one per id.
RECURSIVE IndexOfIdFrom(_, _, _)
IndexOfIdFrom(table, id, i) ==
  IF i > Len(table) THEN 0
  ELSE IF table[i].id = id THEN i
  ELSE IndexOfIdFrom(table, id, i + 1)
IndexOfId(table, id) == IndexOfIdFrom(table, id, 1)

HasId(table, id) == IndexOfId(table, id) # 0

\* table[id]
Entry(table, id) == table[IndexOfId(table, id)]

\* table[id] = attrs : an existing key keeps its place, a new key goes last
SetEntry(table, attrs) ==
  IF HasId(table, attrs.id)
    THEN [table EXCEPT ![IndexOfId(table, attrs.id)] = attrs]
    ELSE Append(table, attrs)

\* delete table[id]
DeleteEntry(table, id) ==
  IF HasId(table, id) THEN RemoveAt(table, IndexOfId(table, id)) ELSE table

\* ------------------------------------------------------ useSimulation hook
\* the kinds initialize() creates, in creation order
Repeat(kind, n) == [i \in 1..Max(0, n) |-> kind]
KindList(c) ==
  Repeat("Producer", c.initialProducers) \o Repeat("Herbivore", c.initialHerbivores)
    \o Repeat("Carnivore", c.initialCarnivores) \o Repeat("Decomposer", c.initialDecomposers)

\* one organism of initialize(): new Producer/Consumer/Decomposer({...}).getAttributes()
InitialOrganism(kind, id, position, lifespan) ==
  CASE kind = "Producer" ->
         ProducerCtor(Attrs(id, Undefined, Undefined, position, InitialEnergy(kind), 0, lifespan,
                            InitialReproductionEnergy(kind), 0, FALSE, "Basic Plant"))
    [] kind = "Herbivore" ->
         ConsumerCtor(Attrs(id, Undefined, "Herbivore", position, InitialEnergy(kind), 0, lifespan,
                            InitialReproductionEnergy(kind), EnergyUnit, FALSE, "Herbivore"))
    [] kind = "Carnivore" ->
         ConsumerCtor(Attrs(id, Undefined, "Carnivore", position, InitialEnergy(kind), 0, lifespan,
                            InitialReproductionEnergy(kind), EnergyUnit, FALSE, "Carnivore"))
    [] OTHER ->
         DecomposerCtor(Attrs(id, Undefined, Undefined, position, InitialEnergy(kind), 0, lifespan,
                              InitialReproductionEnergy(kind), EnergyUnit \div 4, FALSE, "Decomposer"))

\* the organism table initialize() builds; place and life are the random draws
InitialOrganisms(c, firstId, place, life) ==
  [i \in 1..Population(c) |->
     InitialOrganism(KindList(c)[i], firstId + i - 1, place[i], life[i])]

\* grid.addOrganism(o) for every o of a table, in table order
RECURSIVE AddAll(_, _)
AddAll(g, table) ==
  IF table = <<>> THEN g ELSE AddAll(AddOrganism(g, Head(table)), Tail(table))

\* the Environment initialize() constructs: new Environment({temperature, rainfall}, config)
InitialEnvironment(c) ==
  EnvironmentCtor([day |-> 0, season |-> Undefined, width |-> 0, height |-> 0], c)

\* the state initialize() sets
InitialState(c, env, gridIndex, organisms) ==
  [day |-> 0, season |-> "Spring", environment |-> GetConfig(env), grid |-> gridIndex,
   organisms |-> organisms, disturbance |-> <<>>, statistics |-> 1, paused |-> TRUE,
   cyclesPerSecond |-> 1]

\* no call on a single object has been made
NoCall == [op |-> "none", n |-> 0]

NoUpdater ==
  [env |-> [day |-> 0], activeDisturbances |-> <<>>, entries |-> <<>>, idx |-> 0,
   newOrganisms |-> <<>>, deadOrganisms |-> <<>>, positionChanges |-> <<>>,
   newOrganismsToAdd |-> <<>>, deadOrganismsCounts |-> <<>>,
   deadCount |-> 0, decomposed |-> <<>>]

\* initialize(c): constructs Environment, Grid and organisms and sets the state
InitializeWorld(c, terrain, place, life) ==
  LET env == InitialEnvironment(c)
      organisms == InitialOrganisms(c, nextId, place, life)
      grid == AddAll(GridCtor(c.gridWidth, c.gridHeight, terrain), organisms)
  IN  /\ environment' = env
      /\ grids' = Append(grids, grid)
      /\ gridRef' = Len(grids) + 1
      /\ state' = InitialState(c, env, Len(grids) + 1, organisms)
      /\ nextId' = nextId + Population(c)

\* EMPTY_STATS: the ten statistics series
StatKeys ==
  {"producers", "herbivores", "carnivores", "decomposers", "biodiversityIndex",
   "averageTemperature", "averageRainfall", "totalEnergy", "totalNutrients", "stabilityIndex"}
EmptyStats == [k \in StatKeys |-> <<>>]

\* The hook after its first render with configuration c: useState initial
\* values, then the effect that calls initialize().  stats is what the arrays
\* of EMPTY_STATS hold at that time.
Mounted(c, stats) ==
    \E terrain \in Terrains(c.gridWidth, c.gridHeight) :
      \E place \in [1..Population(c) -> DrawnPositions(c.gridWidth, c.gridHeight)] :
        \E life \in [1..Population(c) -> Lifespans] :
          LET env == InitialEnvironment(c)
              organisms == InitialOrganisms(c, 1, place, life)
              grid == AddAll(GridCtor(c.gridWidth, c.gridHeight, terrain), organisms)
          IN  /\ config = c
              /\ state = InitialState(c, env, 1, organisms)
              /\ autoRestartOnExtinction = TRUE
              /\ extinctionCount = 0
              /\ restartTimers = <<>>
              /\ gridRef = 1
              /\ grids = <<grid>>
              /\ environment = env
              /\ dists = <<>>
              /\ statsHeap = <<stats>>
              /\ queue = <<>>
              /\ upd = NoUpdater
              /\ pc = "idle"
              /\ cyclesLeft = 0
              /\ nextId = Population(c) + 1
              /\ cycles = 0
              /\ saved = <<>>
              /\ lineage = <<>>
              /\ call = NoCall

Init == \E c \in Configs : Mounted(c, EmptyStats)

\* togglePause
TogglePause ==
  /\ pc = "idle"
  /\ state' = [state EXCEPT !.paused = ~state.paused]
  /\ UNCHANGED <<call, config, autoRestartOnExtinction, extinctionCount, restartTimers, gridRef, grids, environment, dists, statsHeap, queue, upd, pc, cyclesLeft, nextId, cycles, saved, lineage>>

\* toggleAutoRestart
ToggleAutoRestart ==
  /\ pc = "idle"
  /\ autoRestartOnExtinction' = ~autoRestartOnExtinction
  /\ UNCHANGED <<call, config, state, extinctionCount, restartTimers, gridRef, grids, environment, dists, statsHeap, queue, upd, pc, cyclesLeft, nextId, cycles, saved, lineage>>

\* step(): one runCycle() call
Step ==
  /\ pc = "idle"
  /\ cycles < MaxCycles
  /\ pc' = "tick0"
  /\ cyclesLeft' = 1
  /\ UNCHANGED <<call, config, state, autoRestartOnExtinction, extinctionCount, restartTimers, gridRef, grids, environment, dists, statsHeap, queue, upd, nextId, cycles, saved, lineage>>

\* an interval that is not cleared when the pause flag is set
IntervalTickAlways ==
  /\ pc = "idle"
  /\ \E target \in 1..MaxCyclesPerTick :
       /\ cycles + Min(CatchUpCap, target) <= MaxCycles
       /\ cyclesLeft' = Min(CatchUpCap, target)
  /\ pc' = "tick0"
  /\ UNCHANGED <<call, config, state, autoRestartOnExtinction, extinctionCount, restartTimers, gridRef, grids, environment, dists, statsHeap, queue, upd, nextId, cycles, saved, lineage>>

\* The interval callback, which exists only while state.paused is false:
\* target is Math.floor(targetCycles - cycleCountRef.current) when the loop
\* has fallen behind, and one cycle is run otherwise.
IntervalTick ==
  /\ pc = "idle"
  /\ ~state.paused
  /\ \E target \in 1..MaxCyclesPerTick :
       /\ cycles + Min(CatchUpCap, target) <= MaxCycles
       /\ cyclesLeft' = Min(CatchUpCap, target)
  /\ pc' = "tick0"
  /\ UNCHANGED <<call, config, state, autoRestartOnExtinction, extinctionCount, restartTimers, gridRef, grids, environment, dists, statsHeap, queue, upd, nextId, cycles, saved, lineage>>

\* ------------------------------------------------------------- runCycle
SpontaneousDurations == {3}

\* the outcomes of Environment.update(): the spontaneous disturbance
\* (Math.random() < 0.0005) is generated or not
EnvironmentUpdates(env, heap) ==
  LET plain == EnvironmentUpdate(env, heap) IN
  {plain} \cup
    (IF Len(heap) < MaxDisturbances
       THEN {EnvironmentAddDisturbance(plain[1], plain[2], type, duration) :
               type \in DisturbanceTypes, duration \in SpontaneousDurations}
       ELSE {})

\* runCycle(), the part outside the state updater (lines 442-466): the
\* Environment and the Grid are advanced at once and the updater is handed to
\* setState with environmentConfig and activeDisturbances captured.  React
\* runs the updater at once (eager) when no update is pending, which can only
\* be the first call of a handler, or at the next render.
RunCycle ==
  /\ pc \in {"tick0", "tick"}
  /\ cyclesLeft > 0
  /\ \E eu \in EnvironmentUpdates(environment, dists) :
       /\ environment' = eu[1]
       /\ dists' = eu[2]
       /\ queue' = Append(queue, [env |-> GetConfig(eu[1]),
                                  activeDisturbances |-> GetActiveDisturbances(eu[1], eu[2])])
  /\ grids' = [grids EXCEPT ![gridRef] = UpdateEnvironment(grids[gridRef])]
  /\ cyclesLeft' = cyclesLeft - 1
  /\ cycles' = cycles + 1
  /\ \E eager \in BOOLEAN :
       pc' = IF eager /\ pc = "tick0" THEN "eager"
             ELSE IF cyclesLeft = 1 THEN "render" ELSE "tick"
  /\ UNCHANGED <<call, config, state, autoRestartOnExtinction, extinctionCount, restartTimers, gridRef, statsHeap, upd, nextId, saved, lineage>>

\* The updater starts (lines 468-479): working copies and empty side lists.
\* entries is the array Object.entries(newOrganisms) the loop walks: the
\* attribute objects of the table as they are when the loop starts.
BeginUpdater ==
  /\ pc \in {"render", "eager"}
  /\ queue # <<>>
  /\ upd' = [env |-> Head(queue).env,
             activeDisturbances |-> Head(queue).activeDisturbances,
             entries |-> state.organisms, idx |-> 1,
             newOrganisms |-> state.organisms, deadOrganisms |-> <<>>,
             positionChanges |-> <<>>, newOrganismsToAdd |-> <<>>,
             deadOrganismsCounts |-> <<>>,
             deadCount |-> 0, decomposed |-> <<>>]
  /\ queue' = Tail(queue)
  /\ pc' = "pass"
  /\ UNCHANGED <<call, config, state, autoRestartOnExtinction, extinctionCount, restartTimers, gridRef, grids, environment, dists, statsHeap, cyclesLeft, nextId, cycles, saved, lineage>>

\* the entry the loop is at
Current == upd.entries[upd.idx]
InPass == pc = "pass" /\ upd.idx <= Len(upd.entries)

\* deadOrganismsCounts[cellKey] || 0 : the list holds one position per dead
\* entry the loop has met so far
DeadCount(counts, position) == Cardinality({i \in 1..Len(counts) : counts[i] = position})

\* the in-bounds cells among the eight neighbours, tested against
\* environmentConfig.width and environmentConfig.height
ValidMoves(env, position) ==
  {p \in ((position[1] - 1)..(position[1] + 1)) \X ((position[2] - 1)..(position[2] + 1)) :
     /\ p # position
     /\ p[1] >= 0 /\ p[1] < env.width /\ p[2] >= 0 /\ p[2] < env.height}

\* positionChanges.set(id, {oldPos, newPos})
SetPositionChange(changes, id, oldPos, newPos) ==
  IF \E i \in 1..Len(changes) : changes[i].id = id
    THEN [i \in 1..Len(changes) |->
            IF changes[i].id = id THEN [id |-> id, oldPos |-> oldPos, newPos |-> newPos]
            ELSE changes[i]]
    ELSE Append(changes, [id |-> id, oldPos |-> oldPos, newPos |-> newPos])

\* canReproduce(), findAvailablePosition() and reproduce() of one organism:
\* the pairs <<parent after, offspring if any>>, the offspring as a list of
\* at most one.  No offspring is drawn once
\* the id supply of the model is used up.
Reproductions(o, g, radius) ==
  {<<o, <<>>>>} \cup
    (IF CanReproduce(o, TRUE) /\ nextId <= MaxIds
       THEN {<<ReproduceParent(o), <<[ReproduceOffspring(o, nextId, j) EXCEPT !.position = pos]>>>> :
               pos \in FindAvailablePosition(g, o.position, radius), j \in Jitters(o)}
       ELSE {})

\* the parent's kind, species and guild at the birth of offspring child
Birth(parent, child) ==
  IF child = <<>> THEN lineage
  ELSE lineage @@ (child[1].id :> [type |-> parent.type, species |-> parent.species,
                                consumerType |-> parent.consumerType])

\* uuidv4() is drawn when reproduce() constructs the offspring
NextIdAfter(child) == IF child = <<>> THEN nextId ELSE nextId + 1

Queued(list, child) == list \o child

\* an already-dead entry (lines 482-487): queued for removal and counted
ProcessDead ==
  /\ InPass
  /\ Current.isDead
  /\ upd' = [upd EXCEPT !.idx = upd.idx + 1,
                        !.deadOrganisms = Append(upd.deadOrganisms, Current.id),
                        !.deadOrganismsCounts = Append(upd.deadOrganismsCounts, Current.position)]
  /\ UNCHANGED <<call, config, state, autoRestartOnExtinction, extinctionCount, restartTimers, gridRef, grids, environment, dists, statsHeap, queue, pc, cyclesLeft, nextId, cycles, saved, lineage>>

\* a Producer entry (lines 494-508): update, write-back, then reproduction
ProcessProducer ==
  /\ InPass
  /\ ~Current.isDead
  /\ Current.type = "Producer"
  /\ IF ~InBounds(grids[gridRef], Current.position)
       THEN upd' = [upd EXCEPT !.idx = upd.idx + 1] /\ lineage' = lineage /\ nextId' = nextId
       ELSE \E climate \in ProducerClimates, growthCost \in GrowthCosts :
              LET producer == ProducerUpdate(ProducerCtor(Current), climate.gain, climate.fertile, growthCost) IN
              \E r \in Reproductions(producer, grids[gridRef], 2) :
                /\ upd' = [upd EXCEPT !.idx = upd.idx + 1,
                                      !.newOrganisms = SetEntry(upd.newOrganisms, producer),
                                      !.newOrganismsToAdd = Queued(upd.newOrganismsToAdd, r[2])]
                /\ lineage' = Birth(producer, r[2])
                /\ nextId' = NextIdAfter(r[2])
  /\ UNCHANGED <<call, config, state, autoRestartOnExtinction, extinctionCount, restartTimers, gridRef, grids, environment, dists, statsHeap, queue, pc, cyclesLeft, cycles, saved>>

\* the living entries of the table among the ids a neighbourhood query returned
LivingOfType(table, ids, type) ==
  {id \in ids : HasId(table, id) /\ Entry(table, id).type = type /\ ~Entry(table, id).isDead}

\* lines 545-564: a consumer that is not a Carnivore tries a nearby Producer.
\* The pairs <<consumer after, table after>>; the prey is rebuilt with
\* new Producer(target) and written back whether or not the hunt succeeds.
EatProducers(consumer, table, g) ==
  LET nearbyProducers == LivingOfType(table, GetNearbyOrganisms(g, consumer.position, 1), "Producer") IN
  IF consumer.consumerType = "Carnivore" \/ nearbyProducers = {} THEN {<<consumer, table>>}
  ELSE UNION {
         IF CanEat(consumer, Entry(table, targetId))
           THEN {<<Eat(consumer, ProducerCtor(Entry(table, targetId)), success)[1],
                   SetEntry(table, Eat(consumer, ProducerCtor(Entry(table, targetId)), success)[2])>> :
                   success \in BOOLEAN}
           ELSE {<<consumer, table>>} : targetId \in nearbyProducers}

\* the consumer feeding of lines 566-587 without the guild test and without
\* canEat: any consumer attacks a nearby consumer
EatConsumersUnguarded(consumer, table, g) ==
  LET nearbyConsumers ==
        LivingOfType(table, GetNearbyOrganisms(g, consumer.position, 2), "Consumer") \ {consumer.id} IN
  IF nearbyConsumers = {} THEN {<<consumer, table>>}
  ELSE UNION {
         {<<Eat(consumer, ConsumerCtor(Entry(table, targetId)), success)[1],
            SetEntry(table, Eat(consumer, ConsumerCtor(Entry(table, targetId)), success)[2])>> :
            success \in BOOLEAN} : targetId \in nearbyConsumers}

\* lines 566-587: a consumer that is not a Herbivore tries a nearby Consumer
\* other than itself; the prey is rebuilt with new Consumer(target)
EatConsumers(consumer, table, g) ==
  LET nearbyConsumers ==
        LivingOfType(table, GetNearbyOrganisms(g, consumer.position, 2), "Consumer") \ {consumer.id} IN
  IF consumer.consumerType = "Herbivore" \/ nearbyConsumers = {} THEN {<<consumer, table>>}
  ELSE UNION {
         IF CanEat(consumer, Entry(table, targetId))
           THEN {<<Eat(consumer, ConsumerCtor(Entry(table, targetId)), success)[1],
                   SetEntry(table, Eat(consumer, ConsumerCtor(Entry(table, targetId)), success)[2])>> :
                   success \in BOOLEAN}
           ELSE {<<consumer, table>>} : targetId \in nearbyConsumers}

\* a Consumer entry (lines 509-600): update, move, eat, reproduce, write-back
ProcessConsumer ==
  /\ InPass
  /\ ~Current.isDead
  /\ Current.type = "Consumer"
  /\ IF ~InBounds(grids[gridRef], Current.position)
       THEN upd' = [upd EXCEPT !.idx = upd.idx + 1] /\ lineage' = lineage /\ nextId' = nextId
       ELSE \E cost \in MetabolismCosts :
              LET updated == ConsumerUpdate(ConsumerCtor(Current), cost) IN
              \E newPos \in {<<>>} \cup ValidMoves(upd.env, updated.position) :
                LET moved == IF newPos = <<>> THEN updated ELSE Move(updated, newPos)
                    changes == IF newPos = <<>> THEN upd.positionChanges
                               ELSE SetPositionChange(upd.positionChanges, moved.id, updated.position, newPos)
                IN
                \E a \in EatProducers(moved, upd.newOrganisms, grids[gridRef]) :
                  \E b \in EatConsumers(a[1], a[2], grids[gridRef]) :
                    \E r \in Reproductions(b[1], grids[gridRef], 3) :
                      /\ upd' = [upd EXCEPT !.idx = upd.idx + 1,
                                            !.positionChanges = changes,
                                            !.newOrganisms = SetEntry(b[2], r[1]),
                                            !.newOrganismsToAdd = Queued(upd.newOrganismsToAdd, r[2])]
                      /\ lineage' = Birth(b[1], r[2])
                      /\ nextId' = NextIdAfter(r[2])
  /\ UNCHANGED <<call, config, state, autoRestartOnExtinction, extinctionCount, restartTimers, gridRef, grids, environment, dists, statsHeap, queue, pc, cyclesLeft, cycles, saved>>

\* lines 651-672: the dead entries of the table among the ids of the cell the
\* decomposer was in when its turn began
DeadInCell(table, cell) ==
  {id \in SeqToSet(cell.organisms) : HasId(table, id) /\ Entry(table, id).isDead}

\* deadOrganisms.push(targetId) unless already there
PushOnce(list, target) ==
  IF target = <<>> \/ IndexOf(list, target[1]) # 0 THEN list ELSE Append(list, target[1])

\* decomposer.decompose(newOrganisms[targetId]) followed by
\* addNutrients(decomposer.position, nutrients) (lines 663-664), as one entry
\* of the log of decompositions: who decomposed which corpse, the cell whose
\* organism array the corpse was picked from, the position the table records
\* for the corpse and the one it records for the decomposer at that time, the
\* position handed to addNutrients, and whether energy and nutrients were
\* gained (a dead decomposer gains nothing and returns 0 nutrients)
Decomposition(decomposer, table, target, cellPosition) ==
  IF target = <<>> THEN <<>>
  ELSE <<[by |-> decomposer.id, target |-> target[1], cell |-> cellPosition,
          corpseAt |-> Entry(table, target[1]).position,
          decomposerAt |-> Entry(table, decomposer.id).position,
          nutrientsAt |-> decomposer.position, gained |-> ~decomposer.isDead]>>

\* a Decomposer entry (lines 601-685): update, move, decompose, reproduce,
\* write-back.  addNutrients() changes scalar cell fields only; deadCount is
\* the local of that name as the last Decomposer turn computed it, and
\* decomposed is the log of the decompose() calls of this updater.
ProcessDecomposer ==
  /\ InPass
  /\ ~Current.isDead
  /\ Current.type = "Decomposer"
  /\ IF ~InBounds(grids[gridRef], Current.position)
       THEN upd' = [upd EXCEPT !.idx = upd.idx + 1] /\ lineage' = lineage /\ nextId' = nextId
       ELSE \E gainPerDead \in DecompositionGains, gain \in DecompositionGains :
              LET cell == grids[gridRef].cells[Current.position]
                  decomposer == DecomposerCtor(Current)
                  deadCount == DeadCount(upd.deadOrganismsCounts, decomposer.position)
                  updated == DecomposerUpdate(decomposer, deadCount, gainPerDead)
                  cellOrganisms == IF deadCount > 0 THEN DeadInCell(upd.newOrganisms, cell) ELSE {}
              IN
              \E newPos \in {<<>>} \cup ValidMoves(upd.env, updated.position) :
                \E target \in (IF cellOrganisms = {} THEN {<<>>} ELSE {<<id>> : id \in cellOrganisms}) :
                  LET moved == IF newPos = <<>> THEN updated ELSE Move(updated, newPos)
                      changes == IF newPos = <<>> THEN upd.positionChanges
                                 ELSE SetPositionChange(upd.positionChanges, moved.id, updated.position, newPos)
                      fed == IF target = <<>> THEN moved ELSE Decompose(moved, gain)
                  IN
                  \E r \in Reproductions(fed, grids[gridRef], 2) :
                    /\ upd' = [upd EXCEPT !.idx = upd.idx + 1,
                                          !.positionChanges = changes,
                                          !.deadCount = deadCount,
                                          !.decomposed = upd.decomposed \o Decomposition(moved, upd.newOrganisms, target, Current.position),
                                          !.deadOrganisms = PushOnce(upd.deadOrganisms, target),
                                          !.newOrganisms = SetEntry(upd.newOrganisms, r[1]),
                                          !.newOrganismsToAdd = Queued(upd.newOrganismsToAdd, r[2])]
                    /\ lineage' = Birth(fed, r[2])
                    /\ nextId' = NextIdAfter(r[2])
  /\ UNCHANGED <<call, config, state, autoRestartOnExtinction, extinctionCount, restartTimers, gridRef, grids, environment, dists, statsHeap, queue, pc, cyclesLeft, cycles, saved>>

\* lines 688-692: gridRef.current.moveOrganism(id, oldPos, newPos) for every
\* queued change, in insertion order
RECURSIVE MovedGrid(_, _)
MovedGrid(g, changes) ==
  IF changes = <<>> THEN g
  ELSE MovedGrid(MoveOrganism(g, Head(changes).id, Head(changes).oldPos, Head(changes).newPos),
                 Tail(changes))

\* lines 688-692: newOrganisms[id].position = move.newPos
RECURSIVE MovedTable(_, _)
MovedTable(table, changes) ==
  IF changes = <<>> THEN table
  ELSE MovedTable(SetEntry(table, [Entry(table, Head(changes).id) EXCEPT !.position = Head(changes).newPos]),
                  Tail(changes))

\* lines 694-698: every queued offspring is added to the table and to the grid
RECURSIVE SpawnedTable(_, _)
SpawnedTable(table, offspring) ==
  IF offspring = <<>> THEN table
  ELSE SpawnedTable(SetEntry(table, Head(offspring)), Tail(offspring))

\* lines 700-706: the grid after the removals; an id no longer in the table is skipped
RECURSIVE RemovedGrid(_, _, _)
RemovedGrid(g, table, dead) ==
  IF dead = <<>> THEN g
  ELSE IF HasId(table, Head(dead))
    THEN RemovedGrid(RemoveOrganism(g, Head(dead), Entry(table, Head(dead)).position),
                     DeleteEntry(table, Head(dead)), Tail(dead))
    ELSE RemovedGrid(g, table, Tail(dead))

\* lines 700-706: the table after the removals
RECURSIVE RemovedTable(_, _)
RemovedTable(table, dead) ==
  IF dead = <<>> THEN table ELSE RemovedTable(DeleteEntry(table, Head(dead)), Tail(dead))

\* the pass is over: apply the queued position changes
ApplyMoves ==
  /\ pc = "pass"
  /\ upd.idx > Len(upd.entries)
  /\ grids' = [grids EXCEPT ![gridRef] = MovedGrid(grids[gridRef], upd.positionChanges)]
  /\ upd' = [upd EXCEPT !.newOrganisms = MovedTable(upd.newOrganisms, upd.positionChanges)]
  /\ pc' = "spawns"
  /\ UNCHANGED <<call, config, state, autoRestartOnExtinction, extinctionCount, restartTimers, gridRef, environment, dists, statsHeap, queue, cyclesLeft, nextId, cycles, saved, lineage>>

\* add the queued offspring
ApplySpawns ==
  /\ pc = "spawns"
  /\ grids' = [grids EXCEPT ![gridRef] = AddAll(grids[gridRef], upd.newOrganismsToAdd)]
  /\ upd' = [upd EXCEPT !.newOrganisms = SpawnedTable(upd.newOrganisms, upd.newOrganismsToAdd)]
  /\ pc' = "removals"
  /\ UNCHANGED <<call, config, state, autoRestartOnExtinction, extinctionCount, restartTimers, gridRef, environment, dists, statsHeap, queue, cyclesLeft, nextId, cycles, saved, lineage>>

\* remove the dead and the decomposed
ApplyRemovals ==
  /\ pc = "removals"
  /\ grids' = [grids EXCEPT ![gridRef] = RemovedGrid(grids[gridRef], upd.newOrganisms, upd.deadOrganisms)]
  /\ upd' = [upd EXCEPT !.newOrganisms = RemovedTable(upd.newOrganisms, upd.deadOrganisms)]
  /\ pc' = "finish"
  /\ UNCHANGED <<call, config, state, autoRestartOnExtinction, extinctionCount, restartTimers, gridRef, environment, dists, statsHeap, queue, cyclesLeft, nextId, cycles, saved, lineage>>

\* lines 405-412 and 709-716: the four population counts of a table
ProducerCount(table) == Cardinality({i \in 1..Len(table) : table[i].type = "Producer"})
HerbivoreCount(table) ==
  Cardinality({i \in 1..Len(table) : table[i].type = "Consumer" /\ table[i].consumerType = "Herbivore"})
CarnivoreCount(table) ==
  Cardinality({i \in 1..Len(table) : table[i].type = "Consumer" /\ table[i].consumerType = "Carnivore"})
DecomposerCount(table) == Cardinality({i \in 1..Len(table) : table[i].type = "Decomposer"})

\* checkForExtinction's return value
ExtinctionOccurred(table) ==
  /\ ProducerCount(table) + HerbivoreCount(table) + CarnivoreCount(table) + DecomposerCount(table) = 0
  /\ autoRestartOnExtinction

\* line 726: Object.values(newOrganisms).reduce((sum, o) => sum + o.energy, 0)
TotalEnergy(table) == SeqSum([i \in 1..Len(table) |-> table[i].energy])

\* the species labels of a table
SpeciesOf(table) == {table[i].species : i \in 1..Len(table)}

\* The stability index is kept in thousandths, rounded down; NaN stands for
\* the IEEE not-a-number.
StabilityUnit == 10 ^ 3
NaN == 0 - 1

\* series.slice(-n)
Slice(series, n) == SubSeq(series, Max(1, Len(series) - n + 1), Len(series))

Abs(x) == IF x < 0 THEN 0 - x ELSE x

\* recent.reduce((sum, val) => sum + Math.abs(val - avg), 0) with
\* avg = sum / recent.length, multiplied by recent.length to stay in integers
Deviation(recent) ==
  SeqSum([i \in 1..Len(recent) |-> Abs(Len(recent) * recent[i] - SeqSum(recent))])

\* lines 748-761: the stability index from the series as they are before this
\* step's push.  variationProducers is (sum of |val - avg|) / avg, which is
\* Deviation / sum; with no producer in the window it is 0 / 0, and
\* Math.max(0, NaN) is NaN.  variationHerbivores is 0 for a zero average.
StabilityIndex(stats) ==
  IF Len(stats.producers) > StabilityWindow
    THEN LET recentProducers == Slice(stats.producers, StabilityWindow)
             recentHerbivores == Slice(stats.herbivores, StabilityWindow)
             sp == SeqSum(recentProducers)
             sh == SeqSum(recentHerbivores)
             num == IF sh > 0 THEN Deviation(recentProducers) * sh + Deviation(recentHerbivores) * sp
                    ELSE Deviation(recentProducers)
             den == IF sh > 0 THEN sp * sh ELSE sp
         IN  IF sp = 0 THEN NaN
             ELSE Max(0, (4 * StabilityUnit * den - StabilityUnit * num) \div (4 * den))
    ELSE StabilityUnit

\* the sample one step pushes, one value per series; stats holds the series
\* before the push.  The four counts, totalEnergy and the stability index are
\* computed as the source does.  The biodiversity index (a Shannon entropy, 0
\* for fewer than two species) is kept as the number of species beyond the
\* first; temperature, rainfall and nutrients are continuous quantities the
\* world model does not carry and are kept as 0.
Sample(table, stats) ==
  [k \in StatKeys |->
     CASE k = "producers" -> ProducerCount(table)
       [] k = "herbivores" -> HerbivoreCount(table)
       [] k = "carnivores" -> CarnivoreCount(table)
       [] k = "decomposers" -> DecomposerCount(table)
       [] k = "totalEnergy" -> TotalEnergy(table)
       [] k = "biodiversityIndex" -> Max(0, Cardinality(SpeciesOf(table)) - 1)
       [] k = "stabilityIndex" -> StabilityIndex(stats)
       [] OTHER -> 0]

\* lines 764-773: one push per series, into the arrays themselves
PushSample(stats, sample) == [k \in StatKeys |-> Append(stats[k], sample[k])]

\* slice(-500) taken from the front of the array
LastSamplesFromStart(series) ==
  IF Len(series) > StatsLimit THEN SubSeq(series, 1, StatsLimit) ELSE series

\* slice(-500)
LastSamples(series) ==
  IF Len(series) > StatsLimit THEN SubSeq(series, Len(series) - StatsLimit + 1, Len(series)) ELSE series

\* lines 776-783: every series is replaced by its last 500 samples
Truncated(stats) == [k \in StatKeys |-> LastSamples(stats[k])]

\* a generator whose configuration asks for no organism at all
RestartConfigsEmpty ==
  {[gridWidth |-> 2, gridHeight |-> 1, initialProducers |-> 0, initialHerbivores |-> 0,
    initialCarnivores |-> 0, initialDecomposers |-> 0]}

\* generateRandomConfig(), among the configurations of the model
RestartConfigs == {c \in Configs : c.gridWidth = 2 /\ Population(c) = 1}

\* where control goes when an updater returns
AfterUpdater == IF cyclesLeft > 0 THEN "tick" ELSE IF queue # <<>> THEN "render" ELSE "idle"

\* lines 708-796: extinction check, statistics, and the state the updater returns
Finish ==
  /\ pc = "finish"
  /\ IF ExtinctionOccurred(upd.newOrganisms)
       THEN /\ extinctionCount' = extinctionCount + 1
            /\ \E newConfig \in RestartConfigs : restartTimers' = Append(restartTimers, newConfig)
            /\ UNCHANGED <<state, statsHeap>>
       ELSE LET pushed == PushSample(statsHeap[state.statistics], Sample(upd.newOrganisms, statsHeap[state.statistics]))
                shared == [statsHeap EXCEPT ![state.statistics] = pushed]
                cut == Len(pushed.producers) > StatsLimit
            IN  /\ statsHeap' = IF cut THEN Append(shared, Truncated(pushed)) ELSE shared
                /\ state' = [state EXCEPT
                               !.day = upd.env.day,
                               !.season = upd.env.season,
                               !.environment = upd.env,
                               !.grid = gridRef,
                               !.organisms = upd.newOrganisms,
                               !.disturbance = IF upd.activeDisturbances # <<>>
                                                 THEN <<Head(upd.activeDisturbances)>> ELSE <<>>,
                               !.statistics = IF cut THEN Len(statsHeap) + 1 ELSE state.statistics]
                /\ UNCHANGED <<extinctionCount, restartTimers>>
  /\ upd' = NoUpdater
  /\ pc' = AfterUpdater
  /\ UNCHANGED <<call, config, autoRestartOnExtinction, gridRef, grids, environment, dists, queue, cyclesLeft, nextId, cycles, saved, lineage>>

\* addDisturbance(type, intensity, duration, area): the Environment registers
\* the object and the state is set to show it
AddDisturbance ==
  /\ pc = "idle"
  /\ Len(dists) < MaxDisturbances
  /\ \E type \in DisturbanceTypes, duration \in DisturbanceDurations :
       LET r == EnvironmentAddDisturbance(environment, dists, type, duration) IN
       /\ environment' = r[1]
       /\ dists' = r[2]
       /\ state' = [state EXCEPT !.disturbance = <<Len(r[2])>>]
  /\ UNCHANGED <<call, config, autoRestartOnExtinction, extinctionCount, restartTimers, gridRef, grids, statsHeap, queue, upd, pc, cyclesLeft, nextId, cycles, saved, lineage>>

\* what a snapshot shows when read now: every reference followed
View(st) ==
  [day |-> st.day, season |-> st.season, environment |-> st.environment,
   grid |-> grids[st.grid],
   organisms |-> st.organisms,
   disturbance |-> IF st.disturbance = <<>> THEN <<>> ELSE <<dists[st.disturbance[1]]>>,
   statistics |-> statsHeap[st.statistics],
   paused |-> st.paused, cyclesPerSecond |-> st.cyclesPerSecond]

\* the world as it stands: what the state shows, the live Grid, and the
\* Environment's own clock and disturbance objects
World ==
  [shown |-> View(state),
   cells |-> grids[gridRef],
   clock |-> environment.day,
   disturbances |-> [i \in 1..Len(environment.disturbances) |-> dists[environment.disturbances[i]]]]

\* saveSimulation(name): { state: { ...state }, config: { ...config } }, a
\* shallow copy that shares grid, statistics arrays and disturbance with the
\* live state.  world is history: what the snapshot showed when it was taken.
SaveSimulation ==
  /\ pc = "idle"
  /\ saved = <<>>
  /\ saved' = <<[state |-> state, config |-> config, world |-> World]>>
  /\ UNCHANGED <<call, config, state, autoRestartOnExtinction, extinctionCount, restartTimers, gridRef, grids, environment, dists, statsHeap, queue, upd, pc, cyclesLeft, nextId, cycles, lineage>>

\* loadSimulation(saved): a new Environment and a new Grid are constructed,
\* the grid is repopulated from the saved table, and the saved state object
\* becomes the state
LoadSimulation ==
  /\ pc = "idle"
  /\ saved # <<>>
  /\ Len(grids) < MaxGrids
  /\ LET env == EnvironmentCtor(saved[1].state.environment, saved[1].config)
         w == saved[1].state.environment.width
         h == saved[1].state.environment.height
     IN  /\ environment' = env
         /\ \E terrain \in Terrains(w, h) :
              grids' = Append(grids, AddAll(GridCtor(w, h, terrain), saved[1].state.organisms))
         /\ gridRef' = Len(grids) + 1
         /\ state' = saved[1].state
         /\ config' = saved[1].config
  /\ UNCHANGED <<call, autoRestartOnExtinction, extinctionCount, restartTimers, dists, statsHeap, queue, upd, pc, cyclesLeft, nextId, cycles, saved, lineage>>

\* reset(): initialize() with the current configuration
Reset ==
  /\ pc = "idle"
  /\ Len(grids) < MaxGrids
  /\ nextId + Population(config) - 1 <= MaxIds
  /\ \E terrain \in Terrains(config.gridWidth, config.gridHeight) :
       \E place \in [1..Population(config) -> DrawnPositions(config.gridWidth, config.gridHeight)] :
         \E life \in [1..Population(config) -> Lifespans] :
           InitializeWorld(config, terrain, place, life)
  /\ UNCHANGED <<call, config, autoRestartOnExtinction, extinctionCount, restartTimers, dists, statsHeap, queue, upd, pc, cyclesLeft, cycles, saved, lineage>>

\* configurations handed to reset(newConfig): sizes with a zero or negative
\* side, and a negative count, next to the plain ones
ResetWidths == {-1, 0, 1}
ResetHeights == {0, 1}
ResetCounts == {-1, 0, 1}
ResetConfigs ==
  {c \in [gridWidth : ResetWidths, gridHeight : ResetHeights,
          initialProducers : ResetCounts, initialHerbivores : ResetCounts,
          initialCarnivores : {0}, initialDecomposers : {0}] : Population(c) <= 1}

\* reset(newConfig): initialize(newConfig), which first calls setConfig(newConfig)
ResetWith ==
  /\ pc = "idle"
  /\ Len(grids) < MaxGrids
  /\ \E c \in ResetConfigs :
       /\ nextId + Population(c) - 1 <= MaxIds
       /\ config' = c
       /\ \E terrain \in Terrains(c.gridWidth, c.gridHeight) :
            \E place \in [1..Population(c) -> DrawnPositions(c.gridWidth, c.gridHeight)] :
              \E life \in [1..Population(c) -> Lifespans] :
                InitializeWorld(c, terrain, place, life)
  /\ UNCHANGED <<call, autoRestartOnExtinction, extinctionCount, restartTimers, dists, statsHeap, queue, upd, pc, cyclesLeft, cycles, saved, lineage>>

\* the 100 ms timer of checkForExtinction fires: initialize(newConfig), then
\* setState(prev => ({ ...prev, paused: false }))
RestartTimer ==
  /\ pc = "idle"
  /\ restartTimers # <<>>
  /\ Len(grids) < MaxGrids
  /\ nextId + Population(Head(restartTimers)) - 1 <= MaxIds
  /\ LET c == Head(restartTimers) IN
     \E terrain \in Terrains(c.gridWidth, c.gridHeight) :
       \E place \in [1..Population(c) -> DrawnPositions(c.gridWidth, c.gridHeight)] :
         \E life \in [1..Population(c) -> Lifespans] :
           LET env == InitialEnvironment(c)
               organisms == InitialOrganisms(c, nextId, place, life)
               grid == AddAll(GridCtor(c.gridWidth, c.gridHeight, terrain), organisms)
           IN  /\ environment' = env
               /\ grids' = Append(grids, grid)
               /\ gridRef' = Len(grids) + 1
               /\ state' = [InitialState(c, env, Len(grids) + 1, organisms) EXCEPT !.paused = FALSE]
               /\ nextId' = nextId + Population(c)
               /\ config' = c
  /\ restartTimers' = Tail(restartTimers)
  /\ UNCHANGED <<call, autoRestartOnExtinction, extinctionCount, dists, statsHeap, queue, upd, pc, cyclesLeft, cycles, saved, lineage>>

Next ==
  \/ TogglePause
  \/ ToggleAutoRestart
  \/ Step
  \/ IntervalTick
  \/ RunCycle
  \/ BeginUpdater
  \/ ProcessDead
  \/ ProcessProducer
  \/ ProcessConsumer
  \/ ProcessDecomposer
  \/ ApplyMoves
  \/ ApplySpawns
  \/ ApplyRemovals
  \/ Finish
  \/ AddDisturbance
  \/ SaveSimulation
  \/ LoadSimulation
  \/ Reset
  \/ ResetWith
  \/ RestartTimer

Spec == Init /\ [][Next]_vars

\* The running simulation: manual steps, the interval callback, the organism
\* pass, extinction and automatic restart.
NextRun ==
  \/ TogglePause
  \/ ToggleAutoRestart
  \/ Step
  \/ IntervalTick
  \/ RunCycle
  \/ BeginUpdater
  \/ ProcessDead
  \/ ProcessProducer
  \/ ProcessConsumer
  \/ ProcessDecomposer
  \/ ApplyMoves
  \/ ApplySpawns
  \/ ApplyRemovals
  \/ Finish
  \/ RestartTimer

SpecRun == Init /\ [][NextRun]_vars

\* The operator's session on a world of one organism: manual steps,
\* disturbances, save, load and reset.
InitSession == Init /\ Population(config) = 1

NextSession ==
  \/ Step
  \/ RunCycle
  \/ BeginUpdater
  \/ ProcessDead
  \/ ProcessProducer
  \/ ProcessConsumer
  \/ ProcessDecomposer
  \/ ApplyMoves
  \/ ApplySpawns
  \/ ApplyRemovals
  \/ Finish
  \/ AddDisturbance
  \/ SaveSimulation
  \/ LoadSimulation
  \/ Reset

SpecSession == InitSession /\ [][NextSession]_vars

\* The same session with extinction and its automatic restart: every way a
\* world is made (initialize, restart after extinction, restore) next to the
\* steps.
NextWorlds ==
  \/ Step
  \/ RunCycle
  \/ BeginUpdater
  \/ ProcessDead
  \/ ProcessProducer
  \/ ProcessConsumer
  \/ ProcessDecomposer
  \/ ApplyMoves
  \/ ApplySpawns
  \/ ApplyRemovals
  \/ Finish
  \/ SaveSimulation
  \/ LoadSimulation
  \/ Reset
  \/ RestartTimer

SpecWorlds == InitSession /\ [][NextWorlds]_vars

\* A 1x1 world of one organism that is reset with a configuration of the
\* caller's and stepped.
InitResets ==
  \E c \in Configs :
    /\ Population(c) = 1
    /\ c.gridWidth = 1
    /\ Mounted(c, EmptyStats)

NextResets ==
  \/ ResetWith
  \/ Step
  \/ RunCycle
  \/ BeginUpdater
  \/ ProcessDead
  \/ ProcessProducer
  \/ ProcessConsumer
  \/ ProcessDecomposer
  \/ ApplyMoves
  \/ ApplySpawns
  \/ ApplyRemovals
  \/ Finish

SpecResets == InitResets /\ [][NextResets]_vars

\* Worlds of two Decomposers, with or without a Producer whose corpse they
\* can share, stepped by hand.
DecayConfigs ==
  [gridWidth : GridWidths, gridHeight : GridHeights,
   initialProducers : Counts, initialHerbivores : {0},
   initialCarnivores : {0}, initialDecomposers : {2}]

InitDecay == \E c \in DecayConfigs : Mounted(c, EmptyStats)

NextDecay ==
  \/ Step
  \/ RunCycle
  \/ BeginUpdater
  \/ ProcessDead
  \/ ProcessProducer
  \/ ProcessDecomposer
  \/ ApplyMoves
  \/ ApplySpawns
  \/ ApplyRemovals
  \/ Finish

SpecDecay == InitDecay /\ [][NextDecay]_vars

\* A strip of four cells with one Herbivore and one Carnivore, wide enough
\* for prey to be out of a hunter's reach, stepped by hand.
HuntWidths == {4}
HuntConfigs ==
  [gridWidth : HuntWidths, gridHeight : GridHeights,
   initialProducers : {0}, initialHerbivores : {1},
   initialCarnivores : {1}, initialDecomposers : {0}]

InitHunt == \E c \in HuntConfigs : Mounted(c, EmptyStats)

NextHunt ==
  \/ Step
  \/ RunCycle
  \/ BeginUpdater
  \/ ProcessDead
  \/ ProcessConsumer
  \/ ApplyMoves
  \/ ApplySpawns
  \/ ApplyRemovals
  \/ Finish

SpecHunt == InitHunt /\ [][NextHunt]_vars

\* A world whose statistics arrays already hold samples: EMPTY_STATS shares
\* its arrays with every state built from it, so a world made by reset()
\* after n steps starts with the n samples of the earlier run (one more than
\* the limit once a truncation has replaced the arrays of the state).
StatsFills == {0, StabilityWindow, StatsLimit - 1, StatsLimit, StatsLimit + 1}
Filled(n) == [k \in StatKeys |-> [i \in 1..n |-> i % 3]]

\* the series as n steps of a world without Producers or Herbivores leave
\* them (one Decomposer alive, every index at its starting value)
Barren(n) ==
  [k \in StatKeys |-> [i \in 1..n |-> CASE k = "decomposers" -> 1
                                        [] k = "totalEnergy" -> DefaultEnergy
                                        [] k = "stabilityIndex" -> StabilityUnit
                                        [] OTHER -> 0]]

InitStats ==
  \E c \in Configs, n \in StatsFills :
    /\ Population(c) = 1
    /\ c.gridWidth = 1
    /\ \/ Mounted(c, Filled(n))
       \/ n = StabilityWindow /\ Mounted(c, Barren(n + 1))

NextStats ==
  \/ Step
  \/ RunCycle
  \/ BeginUpdater
  \/ ProcessDead
  \/ ProcessProducer
  \/ ProcessConsumer
  \/ ProcessDecomposer
  \/ ApplyMoves
  \/ ApplySpawns
  \/ ApplyRemovals
  \/ Finish

SpecStats == InitStats /\ [][NextStats]_vars

\* ------------------------------------------- single objects, call by call
\* The hook at rest while one object is exercised directly: a 1x1 world of
\* one Producer, never stepped.
AtRest ==
  /\ Init
  /\ config.gridWidth = 1
  /\ config.initialProducers = 1
  /\ Population(config) = 1
  /\ state.organisms[1].maxAge = 1

\* number of method calls made on the Organism under test
MaxCalls == 4

\* attributes.energy handed to a constructor; 0 stands for an absent field
OrgEnergies == {0, EnergyUnit, 2 * EnergyUnit, 160 * EnergyUnit}
OrgReproductionEnergies == {0, EnergyUnit}
OrgLifespans == {0, 1, 2}

\* new Organism / Producer / Consumer / Decomposer (attributes)
OrgNew ==
  /\ call.op = "none"
  /\ \E energy \in OrgEnergies, reproductionEnergy \in OrgReproductionEnergies, maxAge \in OrgLifespans :
       \E kind \in {"Organism", "Producer", "Herbivore", "Carnivore", "Decomposer"} :
         LET a == Attrs(nextId, Undefined, Undefined, <<0, 0>>, energy, 0, maxAge, reproductionEnergy, 0, FALSE, Undefined)
             o == CASE kind = "Organism" -> OrganismCtor(a)
                    [] kind = "Producer" -> ProducerCtor(a)
                    [] kind = "Herbivore" -> ConsumerCtor([a EXCEPT !.consumerType = "Herbivore"])
                    [] kind = "Carnivore" -> ConsumerCtor([a EXCEPT !.consumerType = "Carnivore"])
                    [] OTHER -> DecomposerCtor(a)
         IN  call' = [op |-> "new", n |-> 0, args |-> <<>>, before |-> o, after |-> o, result |-> <<>>]
  /\ UNCHANGED <<config, state, autoRestartOnExtinction, extinctionCount, restartTimers, gridRef, grids, environment, dists, statsHeap, queue, upd, pc, cyclesLeft, nextId, cycles, saved, lineage>>

\* the calls are made on an Organism
OnOrganism == call.op \in {"new", "update", "move", "reproduce"} /\ call.n < MaxCalls

\* organism.update()
OrgUpdate ==
  /\ OnOrganism
  /\ call' = [op |-> "update", n |-> call.n + 1, args |-> <<>>, before |-> call.after,
              after |-> OrganismUpdate(call.after), result |-> <<>>]
  /\ UNCHANGED <<config, state, autoRestartOnExtinction, extinctionCount, restartTimers, gridRef, grids, environment, dists, statsHeap, queue, upd, pc, cyclesLeft, nextId, cycles, saved, lineage>>

\* organism.move(newPosition)
OrgMove ==
  /\ OnOrganism
  /\ \E newPosition \in Positions(2, 1) :
       call' = [op |-> "move", n |-> call.n + 1, args |-> <<newPosition>>, before |-> call.after,
                after |-> Move(call.after, newPosition), result |-> <<>>]
  /\ UNCHANGED <<config, state, autoRestartOnExtinction, extinctionCount, restartTimers, gridRef, grids, environment, dists, statsHeap, queue, upd, pc, cyclesLeft, nextId, cycles, saved, lineage>>

\* organism.reproduce(): result is the offspring returned
OrgReproduce ==
  /\ OnOrganism
  /\ \E j \in Jitters(call.after) :
       call' = [op |-> "reproduce", n |-> call.n + 1, args |-> <<>>, before |-> call.after,
                after |-> ReproduceParent(call.after),
                result |-> <<ReproduceOffspring(call.after, nextId + 1, j)>>]
  /\ UNCHANGED <<config, state, autoRestartOnExtinction, extinctionCount, restartTimers, gridRef, grids, environment, dists, statsHeap, queue, upd, pc, cyclesLeft, nextId, cycles, saved, lineage>>

NextOrg ==
  \/ OrgNew
  \/ OrgUpdate
  \/ OrgMove
  \/ OrgReproduce

SpecOrg == AtRest /\ [][NextOrg]_vars

\* positions handed to a Grid method: the cells and the ring around them
Around(g) == ((-1)..g.width) \X ((-1)..g.height)

\* the ids handed to a Grid method
GridIds == 1..(MaxIds - 1)

\* the ids some cell of g holds
Held(g) == UNION {SeqToSet(g.cells[p].organisms) : p \in DOMAIN g.cells}

\* new Grid(width, height, environmentConfig)
GridNew ==
  /\ call.op = "none"
  /\ \E w \in GridWidths, h \in GridHeights :
       \E terrain \in Terrains(w, h) :
         LET g == GridCtor(w, h, terrain) IN
         call' = [op |-> "newGrid", n |-> 0, args |-> <<>>, before |-> g, after |-> g, result |-> TRUE]
  /\ UNCHANGED <<config, state, autoRestartOnExtinction, extinctionCount, restartTimers, gridRef, grids, environment, dists, statsHeap, queue, upd, pc, cyclesLeft, nextId, cycles, saved, lineage>>

\* the calls are made on a Grid
OnGrid == call.op \in {"newGrid", "addOrganism", "removeOrganism", "moveOrganism"}

\* grid.addOrganism(organism), for an organism the grid does not hold yet
GridAddOrganism ==
  /\ OnGrid
  /\ \E id \in GridIds \ Held(call.after), position \in Around(call.after) :
       LET o == [id |-> id, position |-> position] IN
       call' = [op |-> "addOrganism", n |-> 0, args |-> <<id, position>>, before |-> call.after,
                after |-> AddOrganism(call.after, o),
                result |-> AddOrganismResult(call.after, o)]
  /\ UNCHANGED <<config, state, autoRestartOnExtinction, extinctionCount, restartTimers, gridRef, grids, environment, dists, statsHeap, queue, upd, pc, cyclesLeft, nextId, cycles, saved, lineage>>

\* grid.removeOrganism(organismId, position)
GridRemoveOrganism ==
  /\ OnGrid
  /\ \E id \in GridIds, position \in Around(call.after) :
       call' = [op |-> "removeOrganism", n |-> 0, args |-> <<id, position>>, before |-> call.after,
                after |-> RemoveOrganism(call.after, id, position),
                result |-> RemoveOrganismResult(call.after, id, position)]
  /\ UNCHANGED <<config, state, autoRestartOnExtinction, extinctionCount, restartTimers, gridRef, grids, environment, dists, statsHeap, queue, upd, pc, cyclesLeft, nextId, cycles, saved, lineage>>

\* grid.moveOrganism(organismId, oldPosition, newPosition)
GridMoveOrganism ==
  /\ OnGrid
  /\ \E id \in GridIds, oldPosition \in Around(call.after), newPosition \in Around(call.after) :
       call' = [op |-> "moveOrganism", n |-> 0, args |-> <<id, oldPosition, newPosition>>,
                before |-> call.after,
                after |-> MoveOrganism(call.after, id, oldPosition, newPosition),
                result |-> MoveOrganismResult(call.after, id, oldPosition, newPosition)]
  /\ UNCHANGED <<config, state, autoRestartOnExtinction, extinctionCount, restartTimers, gridRef, grids, environment, dists, statsHeap, queue, upd, pc, cyclesLeft, nextId, cycles, saved, lineage>>

NextGrid ==
  \/ GridNew
  \/ GridAddOrganism
  \/ GridRemoveOrganism
  \/ GridMoveOrganism

SpecGrid == AtRest /\ [][NextGrid]_vars

\* ------------------------------------------------ Consumer.eat, call by call
\* A Consumer and its prey as runCycle builds them from table entries, living
\* or dead.  Prey energies are whole multiples of five points, so that 80% of
\* them is a whole number of model units.
EatEnergies == {0, 50 * EnergyUnit, 120 * EnergyUnit}
EatMovementCosts == {0, EnergyUnit \div 4, EnergyUnit}

EatNew ==
  /\ call.op = "none"
  /\ \E guild \in {"Herbivore", "Carnivore", "Omnivore"}, preyKind \in {"Producer", "Consumer"} :
       \E energy \in EatEnergies, preyEnergy \in EatEnergies, movementCost \in EatMovementCosts,
          dead \in BOOLEAN, preyDead \in BOOLEAN :
         LET c == ConsumerCtor(Attrs(1, Undefined, guild, <<0, 0>>, energy, 0, 0, 0,
                                     movementCost, dead, Undefined))
             a == Attrs(2, Undefined, Undefined, <<0, 0>>, preyEnergy, 0, 0, 0, 0, preyDead, Undefined)
             prey == IF preyKind = "Producer" THEN ProducerCtor(a) ELSE ConsumerCtor(a)
             pair == [consumer |-> c, prey |-> prey]
         IN  call' = [op |-> "newPair", n |-> 0, args |-> <<>>, before |-> pair, after |-> pair, result |-> 0]
  /\ UNCHANGED <<config, state, autoRestartOnExtinction, extinctionCount, restartTimers, gridRef, grids, environment, dists, statsHeap, queue, upd, pc, cyclesLeft, nextId, cycles, saved, lineage>>

\* consumer.eat(prey), with the outcome of the hunting-success draw
EatCall ==
  /\ call.op \in {"newPair", "eat"}
  /\ call.n < MaxCalls
  /\ \E huntingSuccess \in BOOLEAN :
       LET c == call.after.consumer
           prey == call.after.prey
           r == Eat(c, prey, huntingSuccess)
       IN  call' = [op |-> "eat", n |-> call.n + 1, args |-> <<huntingSuccess>>, before |-> call.after,
                    after |-> [consumer |-> r[1], prey |-> r[2]],
                    result |-> EatResult(c, prey, huntingSuccess)]
  /\ UNCHANGED <<config, state, autoRestartOnExtinction, extinctionCount, restartTimers, gridRef, grids, environment, dists, statsHeap, queue, upd, pc, cyclesLeft, nextId, cycles, saved, lineage>>

NextEat ==
  \/ EatNew
  \/ EatCall

SpecEat == AtRest /\ [][NextEat]_vars

\* ------------------------------------- findAvailablePosition, call by call
\* Grids as a long run leaves them: cells that are empty or hold about
\* CrowdLimit organisms, on flat or elevated ground.
FindShapes == {<<1, 1>>, <<2, 1>>, <<3, 1>>, <<2, 2>>}
FindLoads == {0, CrowdLimit - 1, CrowdLimit, CrowdLimit + 1}
FindDistances == 0..3

\* a Grid of w by h whose cell p holds load[p] organisms, ids distinct over
\* the grid, and is elevated (cell.height > 1) where elev[p]
Crowd(w, h, load, elev) ==
  [width |-> w, height |-> h, updates |-> 0,
   cells |-> [p \in Positions(w, h) |->
                [organisms |-> [i \in 1..load[p] |-> (p[1] + w * p[2]) * (CrowdLimit + 1) + i],
                 elevated |-> elev[p]]]]

\* the grid under test comes into being
FindNew ==
  /\ call.op = "none"
  /\ \E shape \in FindShapes :
       \E load \in [Positions(shape[1], shape[2]) -> FindLoads],
          elev \in [Positions(shape[1], shape[2]) -> BOOLEAN] :
         LET g == Crowd(shape[1], shape[2], load, elev) IN
         call' = [op |-> "newCrowd", n |-> 0, args |-> <<>>, before |-> g, after |-> g, result |-> <<>>]
  /\ UNCHANGED <<config, state, autoRestartOnExtinction, extinctionCount, restartTimers, gridRef, grids, environment, dists, statsHeap, queue, upd, pc, cyclesLeft, nextId, cycles, saved, lineage>>

\* grid.findAvailablePosition(origin, maxDistance) for an origin inside the
\* grid: the result is a list of at most one position, empty for null.  The
\* method writes nothing, so one call on each grid stands for any number.
GridFindAvailablePosition ==
  /\ call.op = "newCrowd"
  /\ \E origin \in DOMAIN call.after.cells, maxDistance \in FindDistances :
       LET positions == FindAvailablePosition(call.after, origin, maxDistance) IN
       \E result \in (IF positions = {} THEN {<<>>} ELSE {<<p>> : p \in positions}) :
         call' = [op |-> "findAvailablePosition", n |-> 0, args |-> <<origin, maxDistance>>,
                  before |-> call.after, after |-> call.after, result |-> result]
  /\ UNCHANGED <<config, state, autoRestartOnExtinction, extinctionCount, restartTimers, gridRef, grids, environment, dists, statsHeap, queue, upd, pc, cyclesLeft, nextId, cycles, saved, lineage>>

NextFind ==
  \/ FindNew
  \/ GridFindAvailablePosition

SpecFind == AtRest /\ [][NextFind]_vars

\* --------------------------------------------- one Environment, call by call
\* number of update() calls made on the Environment under test
MaxUpdates == 121

\* Climate values are doubles in the source; the model counts them in
\* 1/ClimateUnit of a degree or percent, which makes the seasonal formulas
\* (multiples of dayInSeason / seasonLength) exact.
ClimateUnit == SeasonLength
Deg(x) == x * ClimateUnit

\* Math.max(lo, Math.min(hi, v))
Clamp(v, lo, hi) == Max(lo, Min(hi, v))

\* the climate fields the constructor sets: temperature || 25, rainfall || 50,
\* sunlightIntensity || 80, pollutionLevel || 10
ClimateCtor(temperature, rainfall) ==
  [temperature |-> OrDefault(temperature, Deg(25)), rainfall |-> OrDefault(rainfall, Deg(50)),
   sunlight |-> Deg(80), pollution |-> Deg(10)]

\* updateSeasonalFactors: the season's formulas at k = day % seasonLength
\* (seasonProgress = k / seasonLength), then the random variation, then the
\* clamps to [-10, 40], [10, 100] and [30, 100]
UpdateSeasonalFactors(c, day, season, tempNoise, rainNoise) ==
  LET k == day % SeasonLength
      temperature == CASE season = "Spring" -> Deg(15) + 10 * k
                       [] season = "Summer" -> Deg(25) + 5 * (SeasonLength - k)
                       [] season = "Fall" -> Deg(25) - 15 * k
                       [] OTHER -> Deg(10) - 5 * k
      rainfall == CASE season = "Spring" -> Deg(40) + 20 * k
                    [] season = "Summer" -> Deg(60) - 20 * k
                    [] season = "Fall" -> Deg(40) - 10 * k
                    [] OTHER -> Deg(30) - 10 * (SeasonLength - k)
      sunlight == CASE season = "Spring" -> Deg(60) + 20 * k
                    [] season = "Summer" -> Deg(80) + 20 * (SeasonLength - k)
                    [] season = "Fall" -> Deg(60) - 20 * k
                    [] OTHER -> Deg(40) + 20 * k
  IN  [c EXCEPT !.temperature = Clamp(temperature + tempNoise, Deg(-10), Deg(40)),
                !.rainfall = Clamp(rainfall + rainNoise, Deg(10), Deg(100)),
                !.sunlight = Clamp(sunlight, Deg(30), Deg(100))]

\* addDisturbance without its final clamps: the immediate effect of the type,
\* with the intensity given in tenths
DisturbedClimateUnclamped(c, type, tenths) ==
  CASE type = "Fire" -> [c EXCEPT !.temperature = c.temperature + (Deg(5) * tenths) \div 10]
    [] type = "Drought" -> [c EXCEPT !.rainfall = (c.rainfall * (100 - 3 * tenths)) \div 100]
    [] type = "Flood" -> [c EXCEPT !.rainfall = c.rainfall + (Deg(30) * tenths) \div 10]
    [] type = "HumanActivity" -> [c EXCEPT !.pollution = c.pollution + (Deg(20) * tenths) \div 10]
    [] OTHER -> c

\* addDisturbance returning without its final clamps
DisturbedClimateNoClamp(c, type, tenths) == DisturbedClimateUnclamped(c, type, tenths)

\* addDisturbance: the immediate effect, then the clamps to [-10, 45],
\* [5, 100] and [0, 100]
DisturbedClimate(c, type, tenths) ==
  LET d == DisturbedClimateUnclamped(c, type, tenths) IN
  [d EXCEPT !.temperature = Clamp(d.temperature, Deg(-10), Deg(45)),
            !.rainfall = Clamp(d.rainfall, Deg(5), Deg(100)),
            !.pollution = Clamp(d.pollution, 0, Deg(100))]

\* the inputs: every DisturbanceType, intensities 0, 0.5 and 1 handed to
\* addDisturbance, 0.2 and 0.6 drawn by generateRandomDisturbance, the ends
\* of the two random variations, and the temperatures a configuration gives
AllDisturbanceTypes == {"Fire", "Drought", "Flood", "Disease", "HumanActivity"}
Intensities == {0, 5, 10}
SpontaneousIntensities == {2, 6}
TemperatureNoises == {-ClimateUnit, ClimateUnit - 1}
RainfallNoises == {-(2 * ClimateUnit), 2 * ClimateUnit - 1}
InitialTemperatures == {0, Deg(25), Deg(50)}

\* the config argument of the constructor: what initialize() passes (no day,
\* no season), and state.environment of a snapshot taken on day 45, in
\* Summer, as loadSimulation() passes it
EnvCtorConfigs ==
  {[day |-> 0, season |-> Undefined, width |-> 0, height |-> 0],
   [day |-> SeasonLength + (SeasonLength \div 2), season |-> "Summer", width |-> 1, height |-> 1]}

\* new Environment(config, simulationConfig)
EnvNew ==
  /\ call.op = "none"
  /\ \E cfg \in EnvCtorConfigs, temperature \in InitialTemperatures :
       LET e == [env |-> EnvironmentCtor(cfg, config), heap |-> <<>>,
                 climate |-> ClimateCtor(temperature, 0)]
       IN  call' = [op |-> "newEnv", n |-> 0, args |-> <<>>, before |-> e, after |-> e, result |-> <<>>]
  /\ UNCHANGED <<config, state, autoRestartOnExtinction, extinctionCount, restartTimers, gridRef, grids, environment, dists, statsHeap, queue, upd, pc, cyclesLeft, nextId, cycles, saved, lineage>>

\* the calls are made on an Environment
OnEnv == call.op \in {"newEnv", "envUpdate", "envAddDisturbance"}

\* environment.update(): day, season, seasonal factors, disturbances aged,
\* and the spontaneous disturbance, which goes through addDisturbance
EnvUpdate ==
  /\ OnEnv
  /\ call.n < MaxUpdates
  /\ \E tempNoise \in TemperatureNoises, rainNoise \in RainfallNoises :
       LET e == call.after
           plain == EnvironmentUpdate(e.env, e.heap)
           climate == UpdateSeasonalFactors(e.climate, plain[1].day, plain[1].config.season, tempNoise, rainNoise)
           quiet == [env |-> plain[1], heap |-> plain[2], climate |-> climate]
       IN  \/ call' = [op |-> "envUpdate", n |-> call.n + 1, args |-> <<>>, before |-> e,
                       after |-> quiet, result |-> <<>>]
           \/ /\ Len(e.heap) < MaxDisturbances
              /\ \E type \in AllDisturbanceTypes, tenths \in SpontaneousIntensities, duration \in SpontaneousDurations :
                   LET r == EnvironmentAddDisturbance(plain[1], plain[2], type, duration) IN
                   call' = [op |-> "envUpdate", n |-> call.n + 1, args |-> <<>>, before |-> e,
                            after |-> [env |-> r[1], heap |-> r[2],
                                       climate |-> DisturbedClimate(climate, type, tenths)],
                            result |-> <<>>]
  /\ UNCHANGED <<config, state, autoRestartOnExtinction, extinctionCount, restartTimers, gridRef, grids, environment, dists, statsHeap, queue, upd, pc, cyclesLeft, nextId, cycles, saved, lineage>>

\* environment.addDisturbance(type, intensity, duration, affectedArea)
EnvAddDisturbance ==
  /\ OnEnv
  /\ Len(call.after.heap) < MaxDisturbances
  /\ \E type \in AllDisturbanceTypes, tenths \in Intensities, duration \in DisturbanceDurations :
       LET e == call.after
           r == EnvironmentAddDisturbance(e.env, e.heap, type, duration)
       IN  call' = [op |-> "envAddDisturbance", n |-> call.n, args |-> <<type, tenths, duration>>,
                    before |-> e,
                    after |-> [env |-> r[1], heap |-> r[2],
                               climate |-> DisturbedClimate(e.climate, type, tenths)],
                    result |-> <<Len(r[2])>>]
  /\ UNCHANGED <<config, state, autoRestartOnExtinction, extinctionCount, restartTimers, gridRef, grids, environment, dists, statsHeap, queue, upd, pc, cyclesLeft, nextId, cycles, saved, lineage>>

NextEnv ==
  \/ EnvNew
  \/ EnvUpdate
  \/ EnvAddDisturbance

SpecEnv == AtRest /\ [][NextEnv]_vars

\* ------------------------------------------------------------- properties
\* the array xs without its first occurrence of id
WithoutFirst(xs, id) == IF IndexOf(xs, id) = 0 THEN xs ELSE RemoveAt(xs, IndexOf(xs, id))

\* C9: Grid.moveOrganism(id, from, to) is atomic on failure: with the
\* destination out of bounds it returns false and no cell's organism array
\* changes, so the id stays in its source cell; whenever it returns false the
\* grid is as before; when it returns true the id has been removed from the
\* source cell and appended to the destination cell, and nothing else differs.
C9_MoveAtomic ==
  call.op = "moveOrganism" =>
    LET id == call.args[1]
        from == call.args[2]
        to == call.args[3]
        before == call.before
        after == call.after
    IN  /\ ~InBounds(before, to) => call.result = FALSE
        /\ call.result = FALSE => after = before
        /\ call.result = TRUE =>
             /\ InBounds(before, from) /\ InBounds(before, to)
             /\ after.width = before.width /\ after.height = before.height
             /\ after.updates = before.updates
             /\ \A p \in DOMAIN before.cells :
                  /\ after.cells[p].elevated = before.cells[p].elevated
                  /\ after.cells[p].organisms =
                       (IF p = from /\ p = to THEN Append(WithoutFirst(before.cells[p].organisms, id), id)
                        ELSE IF p = from THEN WithoutFirst(before.cells[p].organisms, id)
                        ELSE IF p = to THEN Append(before.cells[p].organisms, id)
                        ELSE before.cells[p].organisms)

\* a move of an id held by its source cell to a destination outside the grid
\* has been refused
C9_RefusedMove ==
  /\ call.op = "moveOrganism"
  /\ ~InBounds(call.before, call.args[3])
  /\ InBounds(call.before, call.args[2])
  /\ IndexOf(call.before.cells[call.args[2]].organisms, call.args[1]) # 0
  /\ call.result = FALSE

\* C7: for every parent, reproduce() leaves the parent with exactly half of
\* the energy it had before the call and returns an offspring with exactly
\* half of that energy, so the two together hold what the parent held.
C7_EnergySplit ==
  call.op = "reproduce" =>
    /\ 2 * call.after.energy = call.before.energy
    /\ 2 * call.result[1].energy = call.before.energy
    /\ call.after.energy + call.result[1].energy = call.before.energy

\* reproduce() has been called on a parent holding energy
C7_Reproduced == call.op = "reproduce" /\ call.before.energy > 0

\* the organism table a reader sees: the working copy newOrganisms while an
\* updater runs, state.organisms otherwise
InUpdater == pc \in {"pass", "spawns", "removals", "finish"}
Table == IF InUpdater THEN upd.newOrganisms ELSE state.organisms

\* no step is under way and none is pending
Settled == pc = "idle" /\ queue = <<>>

\* C1: after every completed step and after initialize, an id is in a cell's
\* organism array exactly when the organism table holds that id, alive, at
\* that cell's position.
C1_NoOrphans ==
  Settled =>
    \A p \in DOMAIN grids[gridRef].cells : \A id \in 1..MaxIds :
      (IndexOf(grids[gridRef].cells[p].organisms, id) # 0)
        <=> /\ HasId(state.organisms, id)
            /\ ~Entry(state.organisms, id).isDead
            /\ Entry(state.organisms, id).position = p

\* C2: once the organism table shows an organism with isDead true, no later
\* point of that step or of a later step shows it with isDead false.
C2_DeadStaysDead ==
  [][\A id \in 1..MaxIds :
       (HasId(Table, id) /\ Entry(Table, id).isDead /\ HasId(Table', id))
         => Entry(Table', id).isDead]_vars

\* C3: an organism the table shows dead after step n is, after step n + 1, in
\* neither the organism table nor any cell.
C3_DeadRemovedNextStep ==
  [][Finish =>
       \A id \in 1..MaxIds :
         (HasId(state.organisms, id) /\ Entry(state.organisms, id).isDead)
           => /\ ~HasId(state'.organisms, id)
              /\ id \notin Held(grids'[gridRef'])]_vars

\* Organism.update is about to mark o dead: age reaches maxAge, or no energy
DiesInUpdate(o) == o.age + 1 >= o.maxAge \/ o.energy <= 0

\* C4: an organism that becomes dead in its base update of this step does no
\* further biology in it: it queues no position change and no offspring, and
\* its energy is left as it was.
C4_DeadDoNothing ==
  [][(InPass /\ ~Current.isDead /\ DiesInUpdate(Current) /\ upd'.idx = upd.idx + 1
        /\ HasId(upd'.newOrganisms, Current.id))
       => /\ upd'.positionChanges = upd.positionChanges
          /\ upd'.newOrganismsToAdd = upd.newOrganismsToAdd
          /\ Entry(upd'.newOrganisms, Current.id).energy = Current.energy]_vars

\* the recorded position of every entry of a table
PositionsOf(table) == [i \in 1..Len(table) |-> [id |-> table[i].id, position |-> table[i].position]]

\* C5: during the organism pass no entry is added to or removed from the
\* organism table, no recorded position changes and no cell's organism array
\* changes.
C5_PassDefersStructure ==
  [][(InPass /\ upd'.idx = upd.idx + 1)
       => /\ PositionsOf(upd'.newOrganisms) = PositionsOf(upd.newOrganisms)
          /\ grids' = grids]_vars

\* C6: when one clock tick requests several steps, the environment and the
\* grid are advanced for a step only when every earlier step has been applied.
C6_StepsRunToCompletion == [][RunCycle => queue = <<>>]_vars

\* C8: an offspring is recorded with the kind and species of its parent, and
\* the offspring of a Consumer with the parent's diet guild, from the step of
\* its birth onward.
C8_OffspringLikeParent ==
  \A id \in DOMAIN lineage :
    (Settled /\ HasId(state.organisms, id)) =>
      /\ Entry(state.organisms, id).type = lineage[id].type
      /\ Entry(state.organisms, id).species = lineage[id].species
      /\ lineage[id].type = "Consumer" =>
           Entry(state.organisms, id).consumerType = lineage[id].consumerType

\* C10: restoring a snapshot just produced by saving a world gives back the
\* same world in every field: day, season, environment, grid cell contents,
\* organism table, disturbances, statistics, pause flag and speed.
C10_RoundTrip ==
  [][(LoadSimulation /\ World = saved[1].world) => World' = World]_vars

\* C11: after loadSimulation the Environment's own day counter is the day the
\* snapshot records and the live Grid's cells are the cells the snapshot
\* records, so that the next step continues from the snapshot (its day is the
\* snapshot day plus 1).
C11_RestoredInternals ==
  [][LoadSimulation =>
       /\ environment'.day = saved[1].state.day
       /\ grids'[gridRef'] = grids[saved[1].state.grid]]_vars

\* the entries of a table that are not flagged dead
LivingCount(table) == Cardinality({i \in 1..Len(table) : ~table[i].isDead})

\* C12: a step signals extinction exactly when no living organism is left
\* after its removals: it signals whenever the living count is zero and never
\* while a living organism remains.
C12_ExtinctionSignal ==
  [][Finish =>
       ((extinctionCount' = extinctionCount + 1) <=> (LivingCount(upd.newOrganisms) = 0))]_vars

\* C13: when a step detects extinction and a restart follows, the step leaves
\* the world as it was before it: the state is the previous state and the
\* Environment's day is the day before the step's update.
C13_ExtinctionLeavesWorld ==
  [][(Finish /\ ExtinctionOccurred(upd.newOrganisms)) =>
       /\ state' = state
       /\ environment'.day = upd.env.day - 1]_vars

\* disturbance object i of Environment e is returned by getActiveDisturbances()
Returned(e, i) == i \in SeqToSet(GetActiveDisturbances(e.env, e.heap))

\* C14: a disturbance registered with duration d >= 1 is registered once,
\* active, with elapsed 0; each update() adds exactly 1 to its elapsed count;
\* it is still returned by getActiveDisturbances() while its elapsed count is
\* below d, is deactivated and dropped by the update that brings the count to
\* d, and is never returned again.
C14_DisturbanceLifecycle ==
  /\ OnEnv =>
       \A i \in 1..Len(call.after.heap) :
         Returned(call.after, i) =>
           /\ call.after.heap[i].current < call.after.heap[i].duration
           /\ Cardinality({k \in 1..Len(call.after.env.disturbances) : call.after.env.disturbances[k] = i}) = 1
  /\ call.op = "envAddDisturbance" =>
       LET new == call.result[1] IN
       /\ Len(call.after.heap) = Len(call.before.heap) + 1
       /\ new = Len(call.after.heap)
       /\ call.after.heap[new].current = 0
       /\ call.after.heap[new].active
       /\ call.after.heap[new].duration = call.args[3]
       /\ Returned(call.after, new)
       /\ \A i \in 1..Len(call.before.heap) :
            /\ call.after.heap[i] = call.before.heap[i]
            /\ Returned(call.after, i) <=> Returned(call.before, i)
  /\ call.op = "envUpdate" =>
       \A i \in 1..Len(call.before.heap) :
         IF Returned(call.before, i)
           THEN /\ call.after.heap[i].current = call.before.heap[i].current + 1
                /\ Returned(call.after, i)
                     <=> (call.before.heap[i].current + 1 < call.before.heap[i].duration)
                /\ ~Returned(call.after, i) => ~call.after.heap[i].active
           ELSE /\ ~Returned(call.after, i)
                /\ call.after.heap[i] = call.before.heap[i]

\* a disturbance of duration 2 has been deactivated by its second update
C14_Expired ==
  /\ call.op = "envUpdate"
  /\ \E i \in 1..Len(call.before.heap) :
       /\ call.before.heap[i].duration = 2
       /\ Returned(call.before, i)
       /\ ~Returned(call.after, i)
       /\ call.after.heap[i].current = 2

\* the season that follows s in the cycle Spring, Summer, Fall, Winter, Spring
NextSeason(s) ==
  CASE s = "Spring" -> "Summer"
    [] s = "Summer" -> "Fall"
    [] s = "Fall" -> "Winter"
    [] OTHER -> "Spring"

\* C18: after n calls of update() from construction the day counter is n and
\* the season is the one at index floor((n mod 120) / 30) of Spring, Summer,
\* Fall, Winter; so the season only ever stays or moves to the next one of
\* the cycle.
C18_DayAndSeason ==
  OnEnv =>
    LET d == call.n % YearLength IN
    /\ call.after.env.day = call.n
    /\ call.after.env.config.season =
         (IF d < SeasonLength THEN "Spring"
          ELSE IF d < 2 * SeasonLength THEN "Summer"
          ELSE IF d < 3 * SeasonLength THEN "Fall"
          ELSE "Winter")
    /\ call.op = "envUpdate" =>
         call.after.env.config.season \in
           {call.before.env.config.season, NextSeason(call.before.env.config.season)}

\* v lies in [lo, hi], in degrees or percent
Within(v, lo, hi) == Deg(lo) <= v /\ v <= Deg(hi)

\* C19: right after every update() temperature is in [-10, 40], rainfall in
\* [10, 100] and sunlight in [30, 100], also when the update generated a
\* disturbance; right after every addDisturbance() with intensity in [0, 1]
\* temperature is in [-10, 45], rainfall in [5, 100] and pollution in [0, 100].
C19_ClimateBounds ==
  /\ call.op = "envUpdate" =>
       /\ Within(call.after.climate.temperature, -10, 40)
       /\ Within(call.after.climate.rainfall, 10, 100)
       /\ Within(call.after.climate.sunlight, 30, 100)
  /\ call.op = "envAddDisturbance" =>
       /\ Within(call.after.climate.temperature, -10, 45)
       /\ Within(call.after.climate.rainfall, 5, 100)
       /\ Within(call.after.climate.pollution, 0, 100)

\* addDisturbance() found the temperature above 45 and left it at 45
C19_Clamped ==
  /\ call.op = "envAddDisturbance"
  /\ call.before.climate.temperature > Deg(45)
  /\ call.after.climate.temperature = Deg(45)

\* what snapshot st shows when read after the step being taken
ViewLater(st) ==
  [day |-> st.day, season |-> st.season, environment |-> st.environment,
   grid |-> grids'[st.grid],
   organisms |-> st.organisms,
   disturbance |-> IF st.disturbance = <<>> THEN <<>> ELSE <<dists'[st.disturbance[1]]>>,
   statistics |-> statsHeap'[st.statistics],
   paused |-> st.paused, cyclesPerSecond |-> st.cyclesPerSecond]

\* C15: a snapshot, once returned by a step or captured by saving, never
\* changes: whatever happens next, the state held before it and the saved
\* snapshot still show the same grid cells, organism entries, disturbance
\* and statistics series.
C15_SnapshotsImmutable ==
  [][/\ ViewLater(state) = View(state)
     /\ saved # <<>> => ViewLater(saved[1].state) = View(saved[1].state)]_vars

\* the series as slice(-500) leaves it after one push of x
Recent(series, x) ==
  LET grown == Append(series, x) IN
  [i \in 1..Min(StatsLimit, Len(grown)) |-> grown[i + Len(grown) - Min(StatsLimit, Len(grown))]]

\* C16: a step that does not signal extinction appends exactly one sample to
\* each of the ten statistics series; afterwards every series holds at most
\* 500 samples, the most recent ones in order, and all series have the same
\* length.
C16_OneSamplePerSeries ==
  [][(Finish /\ ~ExtinctionOccurred(upd.newOrganisms)) =>
       LET old == statsHeap[state.statistics]
           new == statsHeap'[state'.statistics]
       IN  /\ DOMAIN new = StatKeys
           /\ Cardinality(StatKeys) = 10
           /\ \A k \in StatKeys :
                /\ new[k] = Recent(old[k], Sample(upd.newOrganisms, old)[k])
                /\ Len(new[k]) <= StatsLimit
                /\ Len(new[k]) = Len(new.producers)]_vars

\* a step has pushed a series past 500 samples and cut it back to 500
C16_Truncated ==
  /\ Len(statsHeap) > 1
  /\ Len(statsHeap[1].producers) > StatsLimit
  /\ Len(statsHeap[state.statistics].producers) = StatsLimit

\* a configuration initialize must reject: a side that is not positive, or a
\* negative initial count
InvalidConfig(c) ==
  \/ c.gridWidth <= 0
  \/ c.gridHeight <= 0
  \/ c.initialProducers < 0
  \/ c.initialHerbivores < 0
  \/ c.initialCarnivores < 0
  \/ c.initialDecomposers < 0

\* C17: initialize rejects a configuration with a non-positive grid width or
\* height or a negative initial count: it constructs no Environment, no Grid
\* and no organism, and the world state stays as it was.
C17_InvalidConfigRejected ==
  [][(ResetWith /\ InvalidConfig(config')) =>
       /\ environment' = environment
       /\ grids' = grids
       /\ gridRef' = gridRef
       /\ nextId' = nextId
       /\ state' = state]_vars

\* C20: after initialize and after every step, every organism of the table
\* has a position with 0 <= x < gridWidth and 0 <= y < gridHeight.
C20_PositionsInGrid ==
  Settled =>
    \A i \in 1..Len(state.organisms) :
      /\ 0 <= state.organisms[i].position[1]
      /\ state.organisms[i].position[1] < config.gridWidth
      /\ 0 <= state.organisms[i].position[2]
      /\ state.organisms[i].position[2] < config.gridHeight

\* how many times id occurs over all organism arrays of grid g
Occurrences(g, id) ==
  Cardinality({pi \in (DOMAIN g.cells) \X (1..MaxIds) :
                 pi[2] <= Len(g.cells[pi[1]].organisms) /\ g.cells[pi[1]].organisms[pi[2]] = id})

\* C21: whatever sequence of initialize, step, extinction restart and restore
\* has run, every organism id occurs at most once over all cells' organism
\* arrays of the grid: never in two cells, never twice in one cell.
C21_IdInOneCell ==
  /\ \A p \in DOMAIN grids[gridRef].cells : Len(grids[gridRef].cells[p].organisms) <= MaxIds
  /\ \A id \in 1..MaxIds : Occurrences(grids[gridRef], id) <= 1

\* a world rebuilt by restore, restart or reset has been stepped and holds
\* two organisms in one cell
C21_SharedCell ==
  /\ Settled
  /\ gridRef > 1
  /\ cycles > 0
  /\ \E p \in DOMAIN grids[gridRef].cells : Len(grids[gridRef].cells[p].organisms) >= 2

\* the ids the table shows alive before and dead after the step of the pass
\* that handles the current entry, the current entry itself left out
Victims ==
  {id \in 1..MaxIds :
     /\ id # Current.id
     /\ HasId(upd.newOrganisms, id) /\ ~Entry(upd.newOrganisms, id).isDead
     /\ HasId(upd'.newOrganisms, id) /\ Entry(upd'.newOrganisms, id).isDead}

Living(table) == LET Alive(o) == ~o.isDead IN SelectSeq(table, Alive)

\* the sample a series received last
Last(series) == series[Len(series)]

\* C23: the population counts a step records are the numbers of living
\* organisms of each kind and guild in the table the step returns, every
\* living organism is counted in exactly one of them, and the recorded total
\* energy is the energy of the living organisms only.
C23_CountsAreLiving ==
  [][(Finish /\ ~ExtinctionOccurred(upd.newOrganisms)) =>
       LET stats == statsHeap'[state'.statistics]
           living == Living(state'.organisms)
       IN  /\ Last(stats.producers) = ProducerCount(living)
           /\ Last(stats.herbivores) = HerbivoreCount(living)
           /\ Last(stats.carnivores) = CarnivoreCount(living)
           /\ Last(stats.decomposers) = DecomposerCount(living)
           /\ Last(stats.producers) + Last(stats.herbivores) + Last(stats.carnivores)
                + Last(stats.decomposers) = Len(living)
           /\ Last(stats.totalEnergy) = TotalEnergy(living)]_vars

\* C24: the stability index a step records is 1.0 when fewer than 10 samples
\* were recorded before it; otherwise it is
\* max(0, 1 - (producerVariation + herbivoreVariation) / 4) over the last 10
\* recorded producer and herbivore counts, each variation being the mean
\* absolute deviation divided by the mean (stated where both means are
\* positive).
C24_StabilityIndex ==
  [][(Finish /\ ~ExtinctionOccurred(upd.newOrganisms)) =>
       LET old == statsHeap[state.statistics]
           recorded == Last(statsHeap'[state'.statistics].stabilityIndex)
           recentProducers == Slice(old.producers, StabilityWindow)
           recentHerbivores == Slice(old.herbivores, StabilityWindow)
           sp == SeqSum(recentProducers)
           sh == SeqSum(recentHerbivores)
           \* mean absolute deviation / mean = Deviation / (window * sum)
           num == Deviation(recentProducers) * sh + Deviation(recentHerbivores) * sp
           den == StabilityWindow * sp * sh
       IN  IF Len(old.producers) < StabilityWindow THEN recorded = StabilityUnit
           ELSE (sp > 0 /\ sh > 0) =>
                  recorded = Max(0, (4 * StabilityUnit * den - StabilityUnit * num) \div (4 * den))]_vars

\* the cells findAvailablePosition may choose: at most maxDistance from the
\* origin in both coordinates, and of positive weight (fewer than CrowdLimit
\* occupants, or elevated)
ValidCells(g, origin, maxDistance) ==
  {p \in DOMAIN g.cells :
     /\ Abs(p[1] - origin[1]) <= maxDistance
     /\ Abs(p[2] - origin[2]) <= maxDistance
     /\ (Len(g.cells[p].organisms) < CrowdLimit \/ g.cells[p].elevated)}

\* C25: for an origin inside the grid and maxDistance >= 0,
\* findAvailablePosition returns none exactly when the square neighbourhood
\* clipped to the grid holds no valid cell; otherwise it returns a position
\* inside the grid and within maxDistance of the origin in both coordinates
\* (on a 1x1 grid, the cell (0,0) or none).  The call changes no cell.
C25_FindAvailable ==
  call.op = "findAvailablePosition" =>
    LET g == call.before
        origin == call.args[1]
        maxDistance == call.args[2]
    IN  /\ (call.result = <<>>) <=> (ValidCells(g, origin, maxDistance) = {})
        /\ call.result # <<>> =>
             /\ InBounds(g, call.result[1])
             /\ Abs(call.result[1][1] - origin[1]) <= maxDistance
             /\ Abs(call.result[1][2] - origin[2]) <= maxDistance
        /\ (g.width = 1 /\ g.height = 1) => call.result \in {<<>>, <<(<<0, 0>>)>>}
        /\ call.after = g

\* a search over more than the origin cell found every cell crowded and
\* returned none
C25_NoneFound ==
  /\ call.op = "findAvailablePosition"
  /\ call.args[2] > 0
  /\ call.before.width > 1
  /\ call.result = <<>>

\* the turn of the current entry has queued an offspring
Reproduced == InPass /\ upd'.idx = upd.idx + 1
                /\ Len(upd'.newOrganismsToAdd) = Len(upd.newOrganismsToAdd) + 1

\* C26: when an organism of any kind reproduces in a step, the energy the
\* organism table records for the parent is the halved, post-reproduction
\* energy: it equals the offspring's energy, and the two add up to the
\* parent's energy just before reproducing.
C26_ParentWrittenBack ==
  [][Reproduced =>
       LET child == upd'.newOrganismsToAdd[Len(upd'.newOrganismsToAdd)]
           parent == Entry(upd'.newOrganisms, Current.id)
       IN  /\ parent.energy = child.energy
           /\ parent.energy + child.energy = 2 * child.energy]_vars

\* the entries of a table that are dead and recorded at position
DeadAt(table, position) ==
  Cardinality({i \in 1..Len(table) : table[i].isDead /\ table[i].position = position})

\* the turn of a living Decomposer standing on a cell of the grid
DecomposerTurn ==
  /\ InPass /\ upd'.idx = upd.idx + 1
  /\ ~Current.isDead /\ Current.type = "Decomposer"
  /\ InBounds(grids[gridRef], Current.position)

\* C27: the dead-organism count handed to a Decomposer's update is the
\* number of entries of the organism table that were already dead at the
\* start of the step and are located in the decomposer's cell, whether those
\* entries come before or after the decomposer in the table.
C27_DeadCountWholeTable ==
  [][DecomposerTurn => upd'.deadCount = DeadAt(upd.entries, Current.position)]_vars

\* C28: decomposition of a corpse is one-shot: once a Decomposer has
\* decomposed a corpse, no other decompose() call on the same corpse yields
\* energy or nutrients, in that step (the corpse is gone after it).
C28_OneShot ==
  /\ \A i, j \in 1..Len(upd.decomposed) :
       (i < j /\ upd.decomposed[i].target = upd.decomposed[j].target)
         => ~(upd.decomposed[i].gained /\ upd.decomposed[j].gained)
  /\ (pc = "finish" =>
        \A i \in 1..Len(upd.decomposed) : ~HasId(upd.newOrganisms, upd.decomposed[i].target))

\* C29: when a Decomposer decomposes a corpse, the corpse is in the
\* decomposer's own cell and the corpse's nutrients are added to that same
\* cell, also when the decomposer or the corpse has a position change queued
\* in the same step.
C29_DecomposedInPlace ==
  \A i \in 1..Len(upd.decomposed) :
    LET d == upd.decomposed[i] IN
    /\ d.corpseAt = d.cell
    /\ d.decomposerAt = d.cell
    /\ d.nutrientsAt = d.cell

\* C30: a Consumer only eats prey within the stated radius of the consumer's
\* own position at the moment of eating, measured against the position the
\* organism table records for the prey: at most 1 in each coordinate for a
\* Producer and at most 2 for a Consumer, also when the predator or the prey
\* has moved earlier in the same step.
C30_PreyWithinReach ==
  [][(InPass /\ upd'.idx = upd.idx + 1 /\ ~Current.isDead /\ Current.type = "Consumer"
        /\ HasId(upd'.newOrganisms, Current.id)) =>
       \A id \in Victims :
         LET prey == Entry(upd.newOrganisms, id)
             at == Entry(upd'.newOrganisms, Current.id).position
             reach == IF prey.type = "Producer" THEN 1 ELSE 2
         IN  /\ Abs(prey.position[1] - at[1]) <= reach
             /\ Abs(prey.position[2] - at[2]) <= reach]_vars

\* C31: for a living consumer and a living prey, eat() has exactly one of two
\* outcomes: success (the prey becomes dead, the consumer's energy rises by
\* 80% of the prey's energy, and that gain is returned) or failure (the prey
\* is unchanged, the consumer's energy falls by 1.5 times its movementCost,
\* and 0 is returned); if either is already dead, eat() returns 0 and changes
\* neither.
C31_EatOutcomes ==
  call.op = "eat" =>
    LET c == call.before.consumer
        prey == call.before.prey
        c2 == call.after.consumer
        prey2 == call.after.prey
        success == /\ prey2 = [prey EXCEPT !.isDead = TRUE]
                   /\ 5 * (c2.energy - c.energy) = 4 * prey.energy
                   /\ call.result = c2.energy - c.energy
        failure == /\ prey2 = prey
                   /\ 2 * (c.energy - c2.energy) = 3 * c.movementCost
                   /\ call.result = 0
    IN  IF c.isDead \/ prey.isDead
          THEN call.result = 0 /\ c2 = c /\ prey2 = prey
          ELSE /\ c2 = [c EXCEPT !.energy = c2.energy]
               /\ (success \/ failure) /\ ~(success /\ failure)

\* a living consumer has hunted down a living prey that held energy
C31_Hunted ==
  /\ call.op = "eat"
  /\ ~call.before.consumer.isDead /\ ~call.before.prey.isDead
  /\ call.before.prey.energy > 0
  /\ call.after.prey.isDead
  /\ call.result > 0

\* ------------------------- cell water and nutrients, one step after another
\* cell.waterLevel and cell.nutrientLevel are kept in tenths (LevelUnit per
\* point), cell.height in tenths, temperature in degrees, rainfall in
\* percent, seasonalFactor and the intensity of a disturbance in tenths.
LevelUnit == 10 ^ 1

\* heights below 0.5, between 0.5 and 1, and above 1; the ends of the ranges
\* initializeGrid gives water (5..100) and nutrients (10..100); the ends of
\* the climate ranges Environment keeps
SoilShapes == {<<2, 1>>}
SoilHeights == {0, 6, 15}
SoilWaters == {5 * LevelUnit, 100 * LevelUnit}
SoilNutrients == {10 * LevelUnit, 100 * LevelUnit}
SoilClimates ==
  {[temperature |-> 0 - 10, rainfall |-> 100, seasonalFactor |-> 10],
   [temperature |-> 45, rainfall |-> 5, seasonalFactor |-> 5]}
SoilAreas == {[startX |-> 0, startY |-> 0, endX |-> 0, endY |-> 0],
              [startX |-> 0, startY |-> 0, endX |-> 1, endY |-> 0]}

\* Grid.updateEnvironment, the water of one cell: evaporation grows with
\* temperature and height, rain shrinks with height, elevated cells drain,
\* and the result is clamped to [0, maxWaterLevel].  All terms are brought
\* over the common denominator 150000.
WaterAfter(cell, environmentConfig) ==
  LET H == cell.height
      W == cell.waterLevel
      drainageFactor == Min(100, 4 * H)
      elevationRainfallReduction == Min(70, 2 * H)
      evaporated == 8 * W * (environmentConfig.temperature - 5) * (100 + 3 * H)
      rainAddition == ((45 * LevelUnit) \div 2) * environmentConfig.rainfall
                        * (100 - elevationRainfallReduction) * environmentConfig.seasonalFactor
      drainageAmount == 150 * W * drainageFactor
      newWaterLevel == (150000 * W - evaporated + rainAddition - drainageAmount) \div 150000
      maxWaterLevel == Max(20 * LevelUnit, (100 - 3 * H) * LevelUnit)
  IN  Max(0, Min(maxWaterLevel, newWaterLevel))

\* Grid.updateEnvironment, the nutrients of the cell at p: one hundredth of
\* the mean difference to the neighbours inside the grid, a difference
\* weighing 1.5 towards a lower neighbour and 0.7 otherwise; no clamp
NutrientAfter(soil, p) ==
  LET neighbors == <<<<p[1] - 1, p[2]>>, <<p[1] + 1, p[2]>>, <<p[1], p[2] - 1>>, <<p[1], p[2] + 1>>>>
      inside(i) == neighbors[i] \in Positions(soil.width, soil.height)
      term(i) == IF inside(i)
                   THEN (soil.cells[neighbors[i]].nutrientLevel - soil.cells[p].nutrientLevel)
                          * (IF soil.cells[p].height > soil.cells[neighbors[i]].height THEN 15 ELSE 7)
                   ELSE 0
      validNeighborCount == Cardinality({i \in 1..4 : inside(i)})
      nutrientDiffusion == term(1) + term(2) + term(3) + term(4)
  IN  IF validNeighborCount > 0
        THEN soil.cells[p].nutrientLevel + nutrientDiffusion \div (1000 * validNeighborCount)
        ELSE soil.cells[p].nutrientLevel

\* Grid.updateEnvironment: the cells are rewritten in place, row by row, so
\* a cell's diffusion reads the new nutrients of the cells before it
RECURSIVE UpdateLevels(_, _, _)
UpdateLevels(soil, i, environmentConfig) ==
  IF i > soil.width * soil.height THEN soil
  ELSE LET p == <<(i - 1) % soil.width, (i - 1) \div soil.width>>
           cell == [soil.cells[p] EXCEPT !.waterLevel = WaterAfter(soil.cells[p], environmentConfig),
                                         !.nutrientLevel = NutrientAfter(soil, p)]
       IN  UpdateLevels([soil EXCEPT !.cells[p] = cell], i + 1, environmentConfig)

\* Grid.applyDisturbance on one cell; the intensities are in ten-thousandths
DisturbCell(cell, type, intensity) ==
  LET H == cell.height
      elevationResistance == 100 - Min(50, 2 * H)
      effectiveIntensity == 10 * intensity * elevationResistance
      fireIntensity == IF H > 10 THEN 1300 * intensity ELSE effectiveIntensity
      droughtIntensity == IF H > 5 THEN 1400 * intensity ELSE effectiveIntensity
      floodIntensity == IF H < 5 THEN 1500 * intensity ELSE (3 * effectiveIntensity) \div 10
      humanIntensity == IF H < 10 THEN 1200 * intensity ELSE (6 * effectiveIntensity) \div 10
  IN  CASE type = "Fire" ->
             [cell EXCEPT !.nutrientLevel = (cell.nutrientLevel * (100000 - 2 * fireIntensity)) \div 100000,
                          !.waterLevel = (cell.waterLevel * (100000 - 8 * fireIntensity)) \div 100000]
        [] type = "Drought" ->
             [cell EXCEPT !.waterLevel = (cell.waterLevel * (100000 - 7 * droughtIntensity)) \div 100000]
        [] type = "Flood" ->
             [cell EXCEPT !.waterLevel = Min(100 * LevelUnit,
                                             cell.waterLevel + (40 * LevelUnit * floodIntensity) \div 10000),
                          !.nutrientLevel = (cell.nutrientLevel * (100000 - 3 * floodIntensity)) \div 100000]
        [] type = "HumanActivity" ->
             [cell EXCEPT !.nutrientLevel = (cell.nutrientLevel * (100000 - 4 * humanIntensity)) \div 100000]
        [] OTHER -> cell

\* Grid.applyDisturbance: every cell of the area that lies inside the grid
DisturbLevels(soil, d) ==
  [soil EXCEPT !.cells =
     [p \in Positions(soil.width, soil.height) |->
        IF /\ Max(0, d.affectedArea.startX) <= p[1] /\ p[1] <= Min(soil.width - 1, d.affectedArea.endX)
           /\ Max(0, d.affectedArea.startY) <= p[2] /\ p[2] <= Min(soil.height - 1, d.affectedArea.endY)
          THEN DisturbCell(soil.cells[p], d.type, d.intensity)
          ELSE soil.cells[p]]]

\* runCycle before the updater: updateEnvironment, then applyDisturbance for
\* each active disturbance (at most one here)
StepLevels(soil, environmentConfig) ==
  LET updated == UpdateLevels(soil, 1, environmentConfig)
  IN  IF soil.disturbances = <<>> THEN updated ELSE DisturbLevels(updated, soil.disturbances[1])

\* a grid as initializeGrid may leave it, with no disturbance or one that
\* stays active over the steps made
SoilNew ==
  /\ call.op = "none"
  /\ \E shape \in SoilShapes :
       \E heights \in [Positions(shape[1], shape[2]) -> SoilHeights],
          waters \in [Positions(shape[1], shape[2]) -> SoilWaters],
          nutrients \in [Positions(shape[1], shape[2]) -> SoilNutrients],
          disturbances \in {<<>>} \cup {<<[type |-> t, intensity |-> i, affectedArea |-> a]>> :
                                          t \in AllDisturbanceTypes, i \in Intensities, a \in SoilAreas} :
         LET soil == [width |-> shape[1], height |-> shape[2], disturbances |-> disturbances,
                      cells |-> [p \in Positions(shape[1], shape[2]) |->
                                   [height |-> heights[p], waterLevel |-> waters[p],
                                    nutrientLevel |-> nutrients[p]]]]
         IN  call' = [op |-> "newSoil", n |-> 0, args |-> <<>>, before |-> soil, after |-> soil, result |-> 0]
  /\ UNCHANGED <<config, state, autoRestartOnExtinction, extinctionCount, restartTimers, gridRef, grids, environment, dists, statsHeap, queue, upd, pc, cyclesLeft, nextId, cycles, saved, lineage>>

\* one step's work on the cells, under the climate of that day
SoilStep ==
  /\ call.op \in {"newSoil", "soilStep"}
  /\ call.n < MaxCalls
  /\ \E environmentConfig \in SoilClimates :
       call' = [op |-> "soilStep", n |-> call.n + 1, args |-> <<environmentConfig>>, before |-> call.after,
                after |-> StepLevels(call.after, environmentConfig), result |-> 0]
  /\ UNCHANGED <<config, state, autoRestartOnExtinction, extinctionCount, restartTimers, gridRef, grids, environment, dists, statsHeap, queue, upd, pc, cyclesLeft, nextId, cycles, saved, lineage>>

NextSoil ==
  \/ SoilNew
  \/ SoilStep

SpecSoil == AtRest /\ [][NextSoil]_vars

\* C32: after every step, every cell's waterLevel and nutrientLevel lie in
\* [0, 100], also inside the area of an active disturbance of any type with
\* an intensity in [0, 1] and at any elevation.
C32_LevelsInRange ==
  call.op = "soilStep" =>
    \A p \in DOMAIN call.after.cells :
      /\ 0 <= call.after.cells[p].waterLevel /\ call.after.cells[p].waterLevel <= 100 * LevelUnit
      /\ 0 <= call.after.cells[p].nutrientLevel /\ call.after.cells[p].nutrientLevel <= 100 * LevelUnit

\* the same without the fire on ground above height 1: a side check
C32_LevelsInRangeButFire ==
  (call.op = "soilStep" /\ ~(\E i \in DOMAIN call.after.disturbances :
                               call.after.disturbances[i].type = "Fire"))
    => C32_LevelsInRange

\* ------------------------------------------- Producer.update, call by call
\* growthRate is kept in sixteenths (1/16 and 1/8 lie in the range 0.06 to
\* 0.14 that initialize() draws), photosynthesisRate in hundredths, the cell
\* levels and sunlight in percent, seasonalFactor in tenths, and size in
\* SizeUnit parts, one part being a sixteenth of a hundredth.
SizeUnit == 16 * 100
GrowthRates == {1, 2}
PhotosynthesisRates == {25}
ProducerEnergies == {100 * EnergyUnit, 110 * EnergyUnit, 120 * EnergyUnit}
CellLevels == {40, 41, 100}
ProducerSkies ==
  {[sunlightIntensity |-> 100, temperature |-> 25, pollutionLevel |-> 0, seasonalFactor |-> 10],
   [sunlightIntensity |-> 30, temperature |-> 0 - 10, pollutionLevel |-> 50, seasonalFactor |-> 2]}

\* environmentFactor in thousandths: sunlight / 100, the temperature factor
\* max(0.1, 1 - |t - 25| / 18), 1 - pollution / 100 and max(0.3, seasonal)
EnvironmentFactor(environmentConfig) ==
  LET diff == IF environmentConfig.temperature > 25 THEN environmentConfig.temperature - 25
              ELSE 25 - environmentConfig.temperature
      temperatureFactor == Max(18, 180 - 10 * diff)
      seasonalFactor == Max(3, environmentConfig.seasonalFactor)
  IN  (environmentConfig.sunlightIntensity * temperatureFactor
         * (100 - environmentConfig.pollutionLevel) * seasonalFactor) \div 18000

\* resourceFactor in hundredths: Math.min(nutrients / 100, water / 100)
ResourceFactor(cellNutrientLevel, cellWaterLevel) == Min(cellNutrientLevel, cellWaterLevel)

\* energyGain = photosynthesisRate * environmentFactor * resourceFactor * 12
PhotosynthesisGain(p, environmentConfig, cellNutrientLevel, cellWaterLevel) ==
  (p.photosynthesisRate * 12 * EnergyUnit * EnvironmentFactor(environmentConfig)
     * ResourceFactor(cellNutrientLevel, cellWaterLevel)) \div (100 * 1000 * 100)

\* this.growthRate * 8, in energy units
GrowthCost(p) == (p.growthRate * 8 * EnergyUnit) \div 16

\* Producer.update(environmentConfig, cellNutrientLevel, cellWaterLevel) on
\* a Producer with its size and rates: energy as ProducerUpdate leaves it,
\* size grown by growthRate * resourceFactor in the growth branch
ProducerUpdateAll(p, environmentConfig, cellNutrientLevel, cellWaterLevel) ==
  LET resourceFactor == ResourceFactor(cellNutrientLevel, cellWaterLevel)
      gain == PhotosynthesisGain(p, environmentConfig, cellNutrientLevel, cellWaterLevel)
      base == OrganismUpdate(p)
      updated == ProducerUpdate(p, gain, resourceFactor > 40, GrowthCost(p))
  IN  IF ~base.isDead /\ base.energy + gain > GrowthEnergy /\ resourceFactor > 40
        THEN [updated EXCEPT !.size = p.size + p.growthRate * resourceFactor]
        ELSE updated

\* new Producer(attributes) with the size and rates initialize() may draw
PlantNew ==
  /\ call.op = "none"
  /\ \E energy \in ProducerEnergies, growthRate \in GrowthRates, photosynthesisRate \in PhotosynthesisRates :
       LET p == [size |-> SizeUnit, growthRate |-> growthRate, photosynthesisRate |-> photosynthesisRate]
                  @@ ProducerCtor(Attrs(1, Undefined, Undefined, <<0, 0>>, energy, 0, 3, 0, 0, FALSE, Undefined))
       IN  call' = [op |-> "newPlant", n |-> 0, args |-> <<>>, before |-> p, after |-> p, result |-> 0]
  /\ UNCHANGED <<config, state, autoRestartOnExtinction, extinctionCount, restartTimers, gridRef, grids, environment, dists, statsHeap, queue, upd, pc, cyclesLeft, nextId, cycles, saved, lineage>>

\* producer.update(environmentConfig, cellNutrientLevel, cellWaterLevel);
\* result is the energy gained by photosynthesis in this call
PlantUpdate ==
  /\ call.op \in {"newPlant", "plantUpdate"}
  /\ call.n < MaxCalls
  /\ \E environmentConfig \in ProducerSkies, cellNutrientLevel \in CellLevels, cellWaterLevel \in CellLevels :
       call' = [op |-> "plantUpdate", n |-> call.n + 1,
                args |-> <<environmentConfig, cellNutrientLevel, cellWaterLevel>>,
                before |-> call.after,
                after |-> ProducerUpdateAll(call.after, environmentConfig, cellNutrientLevel, cellWaterLevel),
                result |-> PhotosynthesisGain(call.after, environmentConfig, cellNutrientLevel, cellWaterLevel)]
  /\ UNCHANGED <<config, state, autoRestartOnExtinction, extinctionCount, restartTimers, gridRef, grids, environment, dists, statsHeap, queue, upd, pc, cyclesLeft, nextId, cycles, saved, lineage>>

NextPlant ==
  \/ PlantNew
  \/ PlantUpdate

SpecPlant == AtRest /\ [][NextPlant]_vars

\* the Producer of the call was alive after the base update, and its energy
\* after photosynthesis and the cell's resources met the growth thresholds
PlantGrows ==
  /\ call.op = "plantUpdate"
  /\ ~call.after.isDead
  /\ call.before.energy + call.result > 110 * EnergyUnit
  /\ ResourceFactor(call.args[2], call.args[3]) > 40

\* C33: in Producer.update, when energy after photosynthesis exceeds 110 and
\* the resource factor exceeds 0.4, size grows by growthRate times the
\* resource factor and energy is reduced by the fixed amount 8, whatever
\* growthRate is; otherwise growth changes neither size nor energy.
C33_GrowthCostFixed ==
  (call.op = "plantUpdate" /\ ~call.after.isDead) =>
    IF PlantGrows
      THEN /\ call.after.size = call.before.size + call.before.growthRate * ResourceFactor(call.args[2], call.args[3])
           /\ call.after.energy = call.before.energy + call.result - 8 * EnergyUnit
      ELSE /\ call.after.size = call.before.size
           /\ call.after.energy = call.before.energy + call.result

\* what the code does: the same with a cost of growthRate * 8 (a side check)
C33_GrowthCostByRate ==
  (call.op = "plantUpdate" /\ ~call.after.isDead) =>
    IF PlantGrows
      THEN /\ call.after.size = call.before.size + call.before.growthRate * ResourceFactor(call.args[2], call.args[3])
           /\ call.after.energy = call.before.energy + call.result - (call.before.growthRate * 8 * EnergyUnit) \div 16
      ELSE /\ call.after.size = call.before.size
           /\ call.after.energy = call.before.energy + call.result

\* C34: the stability index recorded by any step is a number in [0, 1], also
\* when the mean of the last 10 recorded producer counts is zero; it is
\* never undefined, NaN or infinite.
C34_StabilityInRange ==
  [][(Finish /\ ~ExtinctionOccurred(upd.newOrganisms)) =>
       LET recorded == Last(statsHeap'[state'.statistics].stabilityIndex)
       IN  0 <= recorded /\ recorded <= StabilityUnit]_vars

\* the same for steps whose last 10 recorded producer counts are not all
\* zero: a side check
C34_StabilityInRangeWithProducers ==
  [][(/\ Finish
      /\ ~ExtinctionOccurred(upd.newOrganisms)
      /\ SeqSum(Slice(statsHeap[state.statistics].producers, StabilityWindow)) > 0) =>
       LET recorded == Last(statsHeap'[state'.statistics].stabilityIndex)
       IN  0 <= recorded /\ recorded <= StabilityUnit]_vars

\* the id is listed in the cell of grid g at position
InCell(g, id, position) ==
  /\ InBounds(g, position)
  /\ \E i \in DOMAIN g.cells[position].organisms : g.cells[position].organisms[i] = id

\* C35: an organism spawned in step n is not updated, moved, fed, eaten from
\* or allowed to reproduce during step n: after the step it is in the
\* organism table as it was created, with age 0, and its id is in the cell
\* at its assigned position; the next step gives it its first update.
C35_SpawnedUntouched ==
  [][Finish =>
       /\ \A k \in DOMAIN upd.newOrganismsToAdd :
            LET offspring == upd.newOrganismsToAdd[k] IN
            /\ HasId(state'.organisms, offspring.id)
            /\ Entry(state'.organisms, offspring.id) = offspring
            /\ offspring.age = 0 /\ ~offspring.isDead
            /\ InCell(grids'[state'.grid], offspring.id, offspring.position)
       /\ \A i \in DOMAIN state.organisms :
            (/\ state.organisms[i].age = 0
             /\ ~state.organisms[i].isDead
             /\ ~ExtinctionOccurred(upd.newOrganisms))
              => /\ HasId(state'.organisms, state.organisms[i].id)
                 /\ Entry(state'.organisms, state.organisms[i].id).age = 1]_vars

\* an organism spawned by an earlier step stood in the table with age 0 and
\* the pass of the next step is over
C35_Spawned ==
  /\ pc = "finish"
  /\ ~ExtinctionOccurred(upd.newOrganisms)
  /\ \E i \in DOMAIN state.organisms :
       /\ state.organisms[i].id \in DOMAIN lineage
       /\ state.organisms[i].age = 0
       /\ ~state.organisms[i].isDead
       /\ InCell(grids[state.grid], state.organisms[i].id, state.organisms[i].position)

\* C36: each extinction is counted and handled exactly once: from the step
\* that detects it until the restarted world is in place, extinctionCount
\* grows by exactly 1 and exactly one re-initialization is scheduled, however
\* many scheduler ticks or steps run in between.  A step therefore signals
\* extinction only while no restart is pending, and then adds one to the
\* count and one timer.
C36_ExtinctionOnce ==
  [][(Finish /\ ExtinctionOccurred(upd.newOrganisms)) =>
       /\ restartTimers = <<>>
       /\ Len(restartTimers') = 1
       /\ extinctionCount' = extinctionCount + 1]_vars

\* -------------------------------------------------- the restart, with fairness
\* One runCycle call and the updater it queues run to completion once
\* started, and a timer that is due fires once the callbacks before it have
\* returned: weak fairness for the steps of a cycle, strong fairness for the
\* timer, which is only enabled between callbacks.
CycleSteps ==
  \/ RunCycle
  \/ BeginUpdater
  \/ ProcessDead
  \/ ProcessProducer
  \/ ProcessConsumer
  \/ ProcessDecomposer
  \/ ApplyMoves
  \/ ApplySpawns
  \/ ApplyRemovals
  \/ Finish

SpecRestart ==
  /\ InitResets
  /\ [][NextRun]_vars
  /\ WF_<<pc, cyclesLeft, upd.idx>>(CycleSteps)
  /\ SF_<<gridRef, restartTimers>>(RestartTimer)

\* a step has detected extinction and its restart timer has not fired yet
\* (and the grids and ids the model allows are not used up)
RestartPending ==
  /\ restartTimers # <<>>
  /\ Len(grids) < MaxGrids
  /\ nextId + Population(Head(restartTimers)) - 1 <= MaxIds

\* the world as initialize(newConfig) followed by the unpausing setState
\* leaves it: day 0, not paused, the live Grid a new one, and of every kind
\* as many organisms as the new configuration asks for, all alive
Restarted ==
  /\ state.day = 0
  /\ ~state.paused
  /\ state.grid = gridRef /\ gridRef > 1
  /\ state.organisms # <<>>
  /\ \A i \in DOMAIN state.organisms : ~state.organisms[i].isDead /\ state.organisms[i].age = 0
  /\ ProducerCount(state.organisms) = config.initialProducers
  /\ HerbivoreCount(state.organisms) = config.initialHerbivores
  /\ CarnivoreCount(state.organisms) = config.initialCarnivores
  /\ DecomposerCount(state.organisms) = config.initialDecomposers

C38_PausedNoAutoStep ==
  [][/\ (state.paused /\ pc = "idle" /\ pc' # "idle") => (Step /\ ~IntervalTick)
     /\ (state.paused /\ pc = "idle" /\ pc' = "idle" /\ state'.paused) =>
          /\ state'.day = state.day
          /\ state'.organisms = state.organisms
          /\ grids'[state'.grid] = grids[state.grid]
          /\ statsHeap'[state'.statistics] = statsHeap[state.statistics]
     /\ (pc # "idle") => (state'.paused = state.paused)]_vars

\* the flag is set on a world that has been stepped and could be stepped on
C38_Paused ==
  /\ state.paused
  /\ pc = "idle"
  /\ state.day > 0
  /\ cycles < MaxCycles

\* C39: after every initialize or reset, also one that follows steps of an
\* earlier world, the new snapshot has every statistics series empty, day 0,
\* the pause flag set, and exactly initialProducers + initialHerbivores +
\* initialCarnivores + initialDecomposers organisms, all alive; the first
\* step afterwards leaves exactly one sample in each series.  (Stated for
\* configurations with positive sides and no negative count.)
C39_FreshAfterReset ==
  [][/\ (ResetWith /\ ~InvalidConfig(config')) =>
          /\ \A k \in StatKeys : statsHeap'[state'.statistics][k] = <<>>
          /\ state'.day = 0
          /\ state'.paused
          /\ Len(state'.organisms) = config'.initialProducers + config'.initialHerbivores
                                       + config'.initialCarnivores + config'.initialDecomposers
          /\ \A i \in DOMAIN state'.organisms : ~state'.organisms[i].isDead
     /\ (Finish /\ state.day = 0 /\ ~ExtinctionOccurred(upd.newOrganisms) /\ ~InvalidConfig(config)) =>
          \A k \in StatKeys : Len(statsHeap'[state'.statistics][k]) = 1]_vars

\* the same without the statistics: a side check
C39_FreshButStatistics ==
  [][(ResetWith /\ ~InvalidConfig(config')) =>
          /\ state'.day = 0
          /\ state'.paused
          /\ Len(state'.organisms) = config'.initialProducers + config'.initialHerbivores
                                       + config'.initialCarnivores + config'.initialDecomposers
          /\ \A i \in DOMAIN state'.organisms : ~state'.organisms[i].isDead]_vars

====
